---- MODULE Spec2Model ----
(***************************************************************************)
(* Neon Geometry Tower Defense: the simulation engine of src/src/main.zig  *)
(* (GameData and the exported init / resetGame / update / handleClick /    *)
(* canPlaceTower / selectTowerType) together with the host's pause toggle  *)
(* of GameApplication.                                                     *)
(*                                                                         *)
(* Numbers.  The engine computes in f32.  The model uses fixed point:      *)
(*   - a coordinate or a length is an integer count of 1/PosScale units;   *)
(*   - a time (delta, timer, cooldown) is an integer count of 1/TimeScale  *)
(*     seconds;                                                            *)
(*   - an enemy speed is an integer count of 1/SpeedScale units/second;    *)
(*   - an enemy health is an integer count of 1/HealthScale points.        *)
(* A comparison of a distance with a threshold is made on the squares,     *)
(* which is exact for the modelled coordinates; a quotient is rounded to   *)
(* the nearest sub-unit, which differs from f32 rounding in the low bits.  *)
(* A collection (array + count in the source) is the sequence of its live  *)
(* prefix: enemies[0..enemy_count) is game.enemies, enemy_count its Len.   *)
(***************************************************************************)
EXTENDS Integers, Sequences, FiniteSets, TLC

\* ---------------------------------------------------------------- scales
PosScale == 16
TimeScale == 80
SpeedScale == 100
HealthScale == 100

\* ------------------------------------------------------- program constants
GRID_SIZE == 40
TOWERS_LEN == 100
ENEMIES_LEN == 100
PROJECTILES_LEN == 200

GameStates == {"Menu", "Playing", "Paused", "GameOver"}
TowerTypes == {"None", "Line", "Triangle", "Square", "Pentagon"}

\* ------------------------------------------------------------ arithmetic
\* a / b rounded to the nearest integer (b > 0)
RoundDiv(a, b) == (2 * a + b) \div (2 * b)

RECURSIVE SqrtIter(_, _, _)
SqrtIter(n, lo, hi) ==
    IF lo >= hi THEN lo
    ELSE LET mid == (lo + hi + 1) \div 2
         IN IF mid * mid <= n THEN SqrtIter(n, mid, hi)
            ELSE SqrtIter(n, lo, mid - 1)

\* @sqrt, rounded to the nearest sub-unit
Sqrt(n) ==
    LET f == SqrtIter(n, 0, 46340)
    IN IF n - f * f > f THEN f + 1 ELSE f

\* dx*dx + dy*dy, the square of the distance the source takes the root of
Dist2(ax, ay, bx, by) == (ax - bx) * (ax - bx) + (ay - by) * (ay - by)

\* a length given in units, squared, in sub-units
Sq(units) == (units * PosScale) * (units * PosScale)

\* ------------------------------------------------------------------ Tower
\* Tower.init with the cooldown started at cooldown_max
Tower_init_cooling(x, y, tower_type) ==
    CASE tower_type = "Line" ->
           [x |-> x, y |-> y, type |-> tower_type, level |-> 1,
            cooldown |-> (5 * TimeScale) \div 10,
            cooldown_max |-> (5 * TimeScale) \div 10, range |-> 150,
            damage |-> 10, cost |-> 50]
      [] tower_type = "Triangle" ->
           [x |-> x, y |-> y, type |-> tower_type, level |-> 1,
            cooldown |-> (10 * TimeScale) \div 10,
            cooldown_max |-> (10 * TimeScale) \div 10, range |-> 100,
            damage |-> 15, cost |-> 100]
      [] tower_type = "Square" ->
           [x |-> x, y |-> y, type |-> tower_type, level |-> 1,
            cooldown |-> (8 * TimeScale) \div 10,
            cooldown_max |-> (8 * TimeScale) \div 10, range |-> 120,
            damage |-> 5, cost |-> 75]
      [] tower_type = "Pentagon" ->
           [x |-> x, y |-> y, type |-> tower_type, level |-> 1,
            cooldown |-> (15 * TimeScale) \div 10,
            cooldown_max |-> (15 * TimeScale) \div 10, range |-> 200,
            damage |-> 30, cost |-> 150]

Tower_init(x, y, tower_type) ==
    CASE tower_type = "Line" ->
           [x |-> x, y |-> y, type |-> tower_type, level |-> 1, cooldown |-> 0,
            cooldown_max |-> (5 * TimeScale) \div 10, range |-> 150,
            damage |-> 10, cost |-> 50]
      [] tower_type = "Triangle" ->
           [x |-> x, y |-> y, type |-> tower_type, level |-> 1, cooldown |-> 0,
            cooldown_max |-> (10 * TimeScale) \div 10, range |-> 100,
            damage |-> 15, cost |-> 100]
      [] tower_type = "Square" ->
           [x |-> x, y |-> y, type |-> tower_type, level |-> 1, cooldown |-> 0,
            cooldown_max |-> (8 * TimeScale) \div 10, range |-> 120,
            damage |-> 5, cost |-> 75]
      [] tower_type = "Pentagon" ->
           [x |-> x, y |-> y, type |-> tower_type, level |-> 1, cooldown |-> 0,
            cooldown_max |-> (15 * TimeScale) \div 10, range |-> 200,
            damage |-> 30, cost |-> 150]

Tower_update(self, delta_time) ==
    IF self.cooldown > 0
    THEN LET c == self.cooldown - delta_time
         IN [self EXCEPT !.cooldown = IF c < 0 THEN 0 ELSE c]
    ELSE self

canAttack(self) == self.cooldown <= 0

\* resetCooldown that leaves the cooldown at 0
resetCooldown_none(self) == self

resetCooldown(self) == [self EXCEPT !.cooldown = self.cooldown_max]

\* ------------------------------------------------------------------ Enemy
Enemy_init(x, y, health, speed, value) ==
    [x |-> x, y |-> y, radius |-> 15, health |-> health, max_health |-> health,
     speed |-> speed, value |-> value, active |-> TRUE, path_index |-> 0]

\* speed * delta_time, in sub-units
MoveDistance(speed, delta_time) ==
    RoundDiv(speed * delta_time * PosScale, SpeedScale * TimeScale)

\* Enemy.update that never reports the end of the path
Enemy_update_noExit(self, delta_time, path) ==
    IF ~self.active THEN [e |-> self, reached_end |-> FALSE]
    ELSE IF self.path_index >= Len(path) THEN [e |-> self, reached_end |-> FALSE]
    ELSE LET target == path[self.path_index + 1]
             dx == target.x - self.x
             dy == target.y - self.y
             d2 == dx * dx + dy * dy
         IN IF d2 < Sq(5)
            THEN [e |-> [self EXCEPT !.path_index = self.path_index + 1],
                  reached_end |-> FALSE]
            ELSE LET distance == Sqrt(d2)
                     move_distance == MoveDistance(self.speed, delta_time)
                 IN [e |-> [self EXCEPT
                              !.x = self.x + RoundDiv(dx * move_distance, distance),
                              !.y = self.y + RoundDiv(dy * move_distance, distance)],
                     reached_end |-> FALSE]

\* Enemy.update: the updated enemy and the returned flag.  path_index counts
\* from 0 as in the source; path is a sequence, so waypoint k is path[k + 1].
Enemy_update(self, delta_time, path) ==
    IF ~self.active THEN [e |-> self, reached_end |-> FALSE]
    ELSE IF self.path_index >= Len(path) THEN [e |-> self, reached_end |-> TRUE]
    ELSE LET target == path[self.path_index + 1]
             dx == target.x - self.x
             dy == target.y - self.y
             d2 == dx * dx + dy * dy
         IN IF d2 < Sq(5)
            THEN [e |-> [self EXCEPT !.path_index = self.path_index + 1],
                  reached_end |-> self.path_index + 1 >= Len(path)]
            ELSE LET distance == Sqrt(d2)
                     move_distance == MoveDistance(self.speed, delta_time)
                 IN [e |-> [self EXCEPT
                              !.x = self.x + RoundDiv(dx * move_distance, distance),
                              !.y = self.y + RoundDiv(dy * move_distance, distance)],
                     reached_end |-> FALSE]

\* takeDamage that reports a kill only below 0 health
takeDamage_strict(self, amount) ==
    [e |-> [self EXCEPT !.health = self.health - amount],
     killed |-> self.health - amount < 0]

\* Enemy.takeDamage: amount in health sub-points
takeDamage(self, amount) ==
    [e |-> [self EXCEPT !.health = self.health - amount],
     killed |-> self.health - amount <= 0]

\* ------------------------------------------------------------- Projectile
PROJECTILE_SPEED == 300

Projectile_init(x, y, target_x, target_y, damage, tower_type) ==
    [x |-> x, y |-> y, target_x |-> target_x, target_y |-> target_y,
     speed |-> PROJECTILE_SPEED, damage |-> damage, active |-> TRUE,
     tower_type |-> tower_type]

\* Projectile.update that carries the target point along with the projectile
Projectile_update_drift(self, delta_time) ==
    IF ~self.active THEN [p |-> self, hit |-> FALSE]
    ELSE LET dx == self.target_x - self.x
             dy == self.target_y - self.y
             d2 == dx * dx + dy * dy
         IN IF d2 < Sq(5) THEN [p |-> self, hit |-> TRUE]
            ELSE LET distance == Sqrt(d2)
                     move_distance ==
                         MoveDistance(self.speed * SpeedScale, delta_time)
                     sx == RoundDiv(dx * move_distance, distance)
                     sy == RoundDiv(dy * move_distance, distance)
                 IN [p |-> [self EXCEPT !.x = self.x + sx,
                                        !.y = self.y + sy,
                                        !.target_x = self.target_x + sx \div 2,
                                        !.target_y = self.target_y + sy \div 2],
                     hit |-> FALSE]

Projectile_update(self, delta_time) ==
    IF ~self.active THEN [p |-> self, hit |-> FALSE]
    ELSE LET dx == self.target_x - self.x
             dy == self.target_y - self.y
             d2 == dx * dx + dy * dy
         IN IF d2 < Sq(5) THEN [p |-> self, hit |-> TRUE]
            ELSE LET distance == Sqrt(d2)
                     move_distance ==
                         MoveDistance(self.speed * SpeedScale, delta_time)
                 IN [p |-> [self EXCEPT
                              !.x = self.x + RoundDiv(dx * move_distance, distance),
                              !.y = self.y + RoundDiv(dy * move_distance, distance)],
                     hit |-> FALSE]

\* --------------------------------------------------------------- GameData
PathPoint(x, y) == [x |-> x * PosScale, y |-> y * PosScale]

DefaultPath ==
    << PathPoint(0, 120), PathPoint(200, 120), PathPoint(200, 280),
       PathPoint(400, 280), PathPoint(400, 120), PathPoint(600, 120),
       PathPoint(600, 400), PathPoint(800, 400) >>

GameData_init ==
    [state |-> "Menu", towers |-> << >>, enemies |-> << >>,
     projectiles |-> << >>, path |-> DefaultPath,
     selected_tower_type |-> "Line", money |-> 100, lives |-> 20, wave |-> 0,
     wave_timer |-> 0, spawn_timer |-> 0, enemies_to_spawn |-> 0]

tower_count(g) == Len(g.towers)
enemy_count(g) == Len(g.enemies)
projectile_count(g) == Len(g.projectiles)
path_length(g) == Len(g.path)

startWave(g) ==
    [g EXCEPT !.wave = g.wave + 1,
              !.enemies_to_spawn = 5 + (g.wave + 1) * 2,
              !.spawn_timer = 0]

\* spawnEnemy without the wave terms of lines 300-302
spawnEnemy_noScaling(g) ==
    IF enemy_count(g) >= ENEMIES_LEN THEN g
    ELSE LET health == 20 * HealthScale
             speed == 50 * SpeedScale
             value == 5
         IN [g EXCEPT
               !.enemies = Append(g.enemies,
                   Enemy_init(g.path[1].x, g.path[1].y, health, speed, value)),
               !.enemies_to_spawn = g.enemies_to_spawn - 1]

spawnEnemy(g) ==
    IF enemy_count(g) >= ENEMIES_LEN THEN g
    ELSE LET health == (20 + g.wave * 5) * HealthScale
             speed == (50 + g.wave * 2) * SpeedScale
             value == 5 + g.wave
         IN [g EXCEPT
               !.enemies = Append(g.enemies,
                   Enemy_init(g.path[1].x, g.path[1].y, health, speed, value)),
               !.enemies_to_spawn = g.enemies_to_spawn - 1]

\* some p in the sequence lies at distance < GRID_SIZE of (x, y)
TooClose(points, x, y) ==
    \E n \in 1..Len(points) :
        Dist2(points[n].x, points[n].y, x, y) < Sq(GRID_SIZE)

\* the tower is stored without being paid for
PlaceTower_free(g, tower) ==
    [g |-> [g EXCEPT !.towers = Append(g.towers, tower)], ok |-> TRUE]

\* lines 333-337: the tower is stored and paid for
PlaceTower(g, tower) ==
    [g |-> [g EXCEPT !.towers = Append(g.towers, tower),
                     !.money = g.money - tower.cost],
     ok |-> TRUE]

\* addTower without the capacity test of line 310
addTower_noCapacity(g, x, y, tower_type) ==
    LET tower == Tower_init(x, y, tower_type)
    IN IF g.money < tower.cost THEN [g |-> g, ok |-> FALSE]
       ELSE IF TooClose(g.path, x, y) THEN [g |-> g, ok |-> FALSE]
       ELSE IF TooClose(g.towers, x, y) THEN [g |-> g, ok |-> FALSE]
       ELSE PlaceTower(g, tower)

\* addTower without the affordability test of line 315
addTower_noFunds(g, x, y, tower_type) ==
    IF tower_count(g) >= TOWERS_LEN THEN [g |-> g, ok |-> FALSE]
    ELSE LET tower == Tower_init(x, y, tower_type)
         IN IF TooClose(g.path, x, y) THEN [g |-> g, ok |-> FALSE]
            ELSE IF TooClose(g.towers, x, y) THEN [g |-> g, ok |-> FALSE]
            ELSE PlaceTower(g, tower)

\* addTower without the tower-overlap loop of lines 326-331
addTower_noOverlap(g, x, y, tower_type) ==
    IF tower_count(g) >= TOWERS_LEN THEN [g |-> g, ok |-> FALSE]
    ELSE LET tower == Tower_init(x, y, tower_type)
         IN IF g.money < tower.cost THEN [g |-> g, ok |-> FALSE]
            ELSE IF TooClose(g.path, x, y) THEN [g |-> g, ok |-> FALSE]
            ELSE PlaceTower(g, tower)

\* GameData.addTower: the new game data and the returned flag
addTower(g, x, y, tower_type) ==
    IF tower_count(g) >= TOWERS_LEN THEN [g |-> g, ok |-> FALSE]
    ELSE LET tower == Tower_init(x, y, tower_type)
         IN IF g.money < tower.cost THEN [g |-> g, ok |-> FALSE]
            ELSE IF TooClose(g.path, x, y) THEN [g |-> g, ok |-> FALSE]
            ELSE IF TooClose(g.towers, x, y) THEN [g |-> g, ok |-> FALSE]
            ELSE PlaceTower(g, tower)

\* addProjectile without the capacity test of line 341
addProjectile_noCapacity(g, x, y, target_x, target_y, damage, tower_type) ==
    [g EXCEPT !.projectiles = Append(g.projectiles,
        Projectile_init(x, y, target_x, target_y, damage, tower_type))]

addProjectile(g, x, y, target_x, target_y, damage, tower_type) ==
    IF projectile_count(g) >= PROJECTILES_LEN THEN g
    ELSE [g EXCEPT !.projectiles = Append(g.projectiles,
             Projectile_init(x, y, target_x, target_y, damage, tower_type))]

\* ------------------------------------------------------------- updateGame
\* What one call of updateGame did, recorded beside the game data:
\*   fired        projectiles requested by towers (addProjectile calls)
\*   reached      enemies that reached the end of the path
\*   kills        enemies removed by an impact
\*   over         the lives == 0 branch set state to GameOver in this call
\*   enemy_after_over   Enemy.update calls made after that assignment
\*   proj_after_over    Projectile.update calls made after that assignment
\*   removed_after_over enemies removed after that assignment
\*   trapped      the call was aborted by the overflow check of lives -= 1
\*   spawned      the enemies spawnEnemy stored, as Enemy.init returned them
\*   shots        for every addProjectile call, in order: the index of the
\*                tower, the index of the enemy it aimed at, and the
\*                projectile the call stored (<< >> when it stored none)
\*   moves        for every Enemy.update call, in order: the enemy before
\*                and after the call, and the returned flag
\*   flights      for every Projectile.update call, in order: the projectile
\*                before and after the call, and the returned flag
\*   impacts      for every projectile whose update returned true, in order:
\*                the projectile, the enemies before and after the
\*                collision scan of lines 523-615, and the money the scan
\*                added
NoObs ==
    [fired |-> 0, reached |-> 0, kills |-> 0, over |-> FALSE,
     enemy_after_over |-> 0, proj_after_over |-> 0, removed_after_over |-> 0,
     trapped |-> FALSE, spawned |-> << >>, shots |-> << >>, impacts |-> << >>,
     moves |-> << >>, flights |-> << >>]

\* seq with element i overwritten by the last element, and shrunk by one
SwapRemove(seq, i) ==
    LET last == Len(seq)
    IN SubSeq(IF i < last THEN [seq EXCEPT ![i] = seq[last]] ELSE seq,
              1, last - 1)

\* the wave stage with > in line 440: the wave starts a step late
WavePacing_strict(g, delta_time) ==
    IF g.enemies_to_spawn = 0 /\ enemy_count(g) = 0
    THEN LET wt == g.wave_timer + delta_time
         IN IF wt > 5 * TimeScale
            THEN startWave([g EXCEPT !.wave_timer = 0])
            ELSE [g EXCEPT !.wave_timer = wt]
    ELSE g

\* lines 436-452
WavePacing(g, delta_time) ==
    IF g.enemies_to_spawn = 0 /\ enemy_count(g) = 0
    THEN LET wt == g.wave_timer + delta_time
         IN IF wt >= 5 * TimeScale
            THEN startWave([g EXCEPT !.wave_timer = 0])
            ELSE [g EXCEPT !.wave_timer = wt]
    ELSE g

\* the spawn stage with >= in line 457: an enemy spawns at exactly 1 s
Spawning_atOne(g, delta_time) ==
    IF g.enemies_to_spawn > 0
    THEN LET st == g.spawn_timer + delta_time
         IN IF st >= 1 * TimeScale
            THEN spawnEnemy([g EXCEPT !.spawn_timer = 0])
            ELSE [g EXCEPT !.spawn_timer = st]
    ELSE g

\* lines 454-461
Spawning(g, delta_time) ==
    IF g.enemies_to_spawn > 0
    THEN LET st == g.spawn_timer + delta_time
         IN IF st > 1 * TimeScale
            THEN spawnEnemy([g EXCEPT !.spawn_timer = 0])
            ELSE [g EXCEPT !.spawn_timer = st]
    ELSE g

\* The loops of updateGame run up to 200 iterations.  Each is modelled by
\* its body, an operator from the loop state to the loop state, applied
\* once per iteration.  N iterations are the first N \div 2 followed, unless
\* the loop has ended by then, by the rest; this keeps the evaluation depth
\* logarithmic in N.

\* the scan step with <= in line 479: a tie goes to the later enemy
ClosestStep_tiesLater(s, enemies, tower) ==
    IF s.n > Len(enemies) THEN s
    ELSE LET enemy == enemies[s.n]
             d2 == Dist2(enemy.x, enemy.y, tower.x, tower.y)
         IN IF enemy.active /\ d2 <= s.d2
            THEN [enemy |-> s.n, d2 |-> d2, n |-> s.n + 1]
            ELSE [s EXCEPT !.n = s.n + 1]

\* lines 472-483: one iteration of the scan for the closest enemy; s is
\* <closest_enemy (index, 0 for null), square of closest_distance, n>
ClosestStep(s, enemies, tower) ==
    IF s.n > Len(enemies) THEN s
    ELSE LET enemy == enemies[s.n]
             d2 == Dist2(enemy.x, enemy.y, tower.x, tower.y)
         IN IF enemy.active /\ d2 < s.d2
            THEN [enemy |-> s.n, d2 |-> d2, n |-> s.n + 1]
            ELSE [s EXCEPT !.n = s.n + 1]

RECURSIVE ClosestIterate(_, _, _, _)
ClosestIterate(s, enemies, tower, N) ==
    IF N = 0 THEN s
    ELSE IF N = 1 THEN ClosestStep(s, enemies, tower)
    ELSE LET half == ClosestIterate(s, enemies, tower, N \div 2)
         IN IF half.n > Len(enemies) THEN half
            ELSE ClosestIterate(half, enemies, tower, N - N \div 2)

\* lines 469-483: index of the enemy the tower aims at, 0 for null
ClosestEnemy(enemies, tower) ==
    ClosestIterate([enemy |-> 0, d2 |-> Sq(tower.range), n |-> 1],
                   enemies, tower, Len(enemies)).enemy

\* lines 465-490: one iteration of the tower loop; s is <w, t>
TowerStep(s, delta_time) ==
    IF s.t > tower_count(s.w.g) THEN s
    ELSE LET w == s.w
             tower == Tower_update(w.g.towers[s.t], delta_time)
             target == IF canAttack(tower)
                       THEN ClosestEnemy(w.g.enemies, tower)
                       ELSE 0
         IN IF target = 0
            THEN [w |-> [w EXCEPT !.g.towers[s.t] = tower], t |-> s.t + 1]
            ELSE LET enemy == w.g.enemies[target]
                     g1 == addProjectile(w.g, tower.x, tower.y, enemy.x,
                                         enemy.y, tower.damage, tower.type)
                 IN [w |-> [w EXCEPT
                              !.g = [g1 EXCEPT
                                       !.towers[s.t] = resetCooldown(tower)],
                              !.obs.fired = w.obs.fired + 1,
                              !.obs.shots =
                                  Append(w.obs.shots,
                                         [tower |-> s.t, target |-> target,
                                          stored |->
                                              SubSeq(g1.projectiles,
                                                     projectile_count(w.g) + 1,
                                                     projectile_count(g1))])],
                     t |-> s.t + 1]

RECURSIVE TowerIterate(_, _, _)
TowerIterate(s, delta_time, N) ==
    IF N = 0 THEN s
    ELSE IF N = 1 THEN TowerStep(s, delta_time)
    ELSE LET half == TowerIterate(s, delta_time, N \div 2)
         IN IF half.t > tower_count(half.w.g) THEN half
            ELSE TowerIterate(half, delta_time, N - N \div 2)

\* lines 464-491
UpdateTowers(w, delta_time) ==
    TowerIterate([w |-> w, t |-> 1], delta_time, tower_count(w.g)).w

\* lines 498-510 without the game-over test of lines 507-510
LoseLife_noGameOver(w, i) ==
    LET lives == IF w.g.lives = 0 THEN -1 ELSE w.g.lives - 1
        after == w.g.state = "GameOver"
    IN [w EXCEPT
          !.g.lives = lives,
          !.g.enemies = SwapRemove(w.g.enemies, i),
          !.obs.reached = w.obs.reached + 1,
          !.obs.removed_after_over =
              w.obs.removed_after_over + (IF after THEN 1 ELSE 0)]

\* lines 498-510: enemy i reached the end of the path.  lives is a u32;
\* where lives -= 1 wraps, the model writes -1 for the wrapped value
\* 2^32 - 1, which is beyond the model checker's integers.
LoseLife(w, i) ==
    LET lives == IF w.g.lives = 0 THEN -1 ELSE w.g.lives - 1
        after == w.g.state = "GameOver"
    IN [w EXCEPT
          !.g.lives = lives,
          !.g.enemies = SwapRemove(w.g.enemies, i),
          !.g.state = IF lives = 0 THEN "GameOver" ELSE w.g.state,
          !.obs.reached = w.obs.reached + 1,
          !.obs.over = w.obs.over \/ lives = 0,
          !.obs.removed_after_over =
              w.obs.removed_after_over + (IF after THEN 1 ELSE 0)]

\* the enemy step that moves on to the next slot after a removal as well
EnemyStep_advance(s, delta_time, ub) ==
    IF s.i > enemy_count(s.w.g) \/ s.w.obs.trapped THEN s
    ELSE LET w == s.w
             r == Enemy_update(w.g.enemies[s.i], delta_time, w.g.path)
             after == w.g.state = "GameOver"
             w1 == [w EXCEPT !.g.enemies[s.i] = r.e,
                             !.obs.enemy_after_over =
                                 w.obs.enemy_after_over + (IF after THEN 1 ELSE 0),
                             !.obs.moves =
                                 Append(w.obs.moves,
                                        [before |-> w.g.enemies[s.i],
                                         after |-> r.e,
                                         reached_end |-> r.reached_end])]
         IN IF ~r.reached_end THEN [w |-> w1, i |-> s.i + 1]
            ELSE IF w1.g.lives = 0 /\ ub = "trap"
            THEN [w |-> [w1 EXCEPT !.obs.trapped = TRUE], i |-> s.i]
            ELSE [w |-> LoseLife(w1, s.i), i |-> s.i + 1]

\* lines 495-513: one iteration of the enemy loop; s is <w, i>.  lives -= 1
\* at 0 is an integer overflow: a safe build traps on it (ub = "trap": the
\* call is aborted at that statement), an unchecked build wraps
\* (ub = "wrap").
EnemyStep(s, delta_time, ub) ==
    IF s.i > enemy_count(s.w.g) \/ s.w.obs.trapped THEN s
    ELSE LET w == s.w
             r == Enemy_update(w.g.enemies[s.i], delta_time, w.g.path)
             after == w.g.state = "GameOver"
             w1 == [w EXCEPT !.g.enemies[s.i] = r.e,
                             !.obs.enemy_after_over =
                                 w.obs.enemy_after_over + (IF after THEN 1 ELSE 0),
                             !.obs.moves =
                                 Append(w.obs.moves,
                                        [before |-> w.g.enemies[s.i],
                                         after |-> r.e,
                                         reached_end |-> r.reached_end])]
         IN IF ~r.reached_end THEN [w |-> w1, i |-> s.i + 1]
            ELSE IF w1.g.lives = 0 /\ ub = "trap"
            THEN [w |-> [w1 EXCEPT !.obs.trapped = TRUE], i |-> s.i]
            ELSE [w |-> LoseLife(w1, s.i), i |-> s.i]

RECURSIVE EnemyIterate(_, _, _, _)
EnemyIterate(s, delta_time, ub, N) ==
    IF N = 0 THEN s
    ELSE IF N = 1 THEN EnemyStep(s, delta_time, ub)
    ELSE LET half == EnemyIterate(s, delta_time, ub, N \div 2)
         IN IF half.i > enemy_count(half.w.g) \/ half.w.obs.trapped THEN half
            ELSE EnemyIterate(half, delta_time, ub, N - N \div 2)

\* lines 494-514: every iteration advances i or removes an enemy, so the
\* loop makes enemy_count iterations
UpdateEnemies(w, delta_time, ub) ==
    EnemyIterate([w |-> w, i |-> 1], delta_time, ub, enemy_count(w.g)).w

\* the removal of a killed enemy without the reward
KillEnemy_noReward(w, n) ==
    [w EXCEPT !.g.enemies = SwapRemove(w.g.enemies, n),
              !.obs.kills = w.obs.kills + 1,
              !.obs.removed_after_over =
                  w.obs.removed_after_over
                  + (IF w.g.state = "GameOver" THEN 1 ELSE 0)]

\* an impact removed enemy n: money, swap-remove, bookkeeping
KillEnemy(w, n) ==
    [w EXCEPT !.g.money = w.g.money + w.g.enemies[n].value,
              !.g.enemies = SwapRemove(w.g.enemies, n),
              !.obs.kills = w.obs.kills + 1,
              !.obs.removed_after_over =
                  w.obs.removed_after_over
                  + (IF w.g.state = "GameOver" THEN 1 ELSE 0)]

\* the splash step with the full damage for every enemy in the splash radius
SplashStep_noFalloff(s, tx, ty, damage) ==
    IF s.k > enemy_count(s.w.g) THEN s
    ELSE LET w == s.w
             splash_enemy == w.g.enemies[s.k]
             d2 == Dist2(splash_enemy.x, splash_enemy.y, tx, ty)
         IN IF ~splash_enemy.active \/ ~(d2 < Sq(50))
            THEN [w |-> w, k |-> s.k + 1]
            ELSE LET r == takeDamage(splash_enemy, damage * HealthScale)
                     w1 == [w EXCEPT !.g.enemies[s.k] = r.e]
                 IN IF r.killed
                    THEN LET w2 == KillEnemy(w1, s.k)
                         IN IF s.k <= enemy_count(w2.g)
                            THEN [w |-> w2, k |-> s.k]
                            ELSE [w |-> w2, k |-> s.k + 1]
                    ELSE [w |-> w1, k |-> s.k + 1]

\* lines 544-574: one iteration of the splash loop of a Triangle impact at
\* (tx, ty); s is <w, k>
SplashStep(s, tx, ty, damage) ==
    IF s.k > enemy_count(s.w.g) THEN s
    ELSE LET w == s.w
             splash_enemy == w.g.enemies[s.k]
             d2 == Dist2(splash_enemy.x, splash_enemy.y, tx, ty)
         IN IF ~splash_enemy.active \/ ~(d2 < Sq(50))
            THEN [w |-> w, k |-> s.k + 1]
            ELSE LET splash_distance == Sqrt(d2)
                     splash_damage ==
                         RoundDiv(damage * HealthScale
                                    * (50 * PosScale - splash_distance),
                                  50 * PosScale)
                     r == takeDamage(splash_enemy, splash_damage)
                     w1 == [w EXCEPT !.g.enemies[s.k] = r.e]
                 IN IF r.killed
                    THEN LET w2 == KillEnemy(w1, s.k)
                         IN IF s.k <= enemy_count(w2.g)
                            THEN [w |-> w2, k |-> s.k]
                            ELSE [w |-> w2, k |-> s.k + 1]
                    ELSE [w |-> w1, k |-> s.k + 1]

RECURSIVE SplashIterate(_, _, _, _, _)
SplashIterate(s, tx, ty, damage, N) ==
    IF N = 0 THEN s
    ELSE IF N = 1 THEN SplashStep(s, tx, ty, damage)
    ELSE LET half == SplashIterate(s, tx, ty, damage, N \div 2)
         IN IF half.k > enemy_count(half.w.g) THEN half
            ELSE SplashIterate(half, tx, ty, damage, N - N \div 2)

\* lines 541-574
Splash(w, tx, ty, damage) ==
    SplashIterate([w |-> w, k |-> 1], tx, ty, damage, enemy_count(w.g)).w

\* lines 524-614: one iteration of the collision scan of projectile p; s is
\* <w, j, brk>, brk set by the break of line 612
CollideStep(s, p) ==
    IF s.brk \/ s.j > enemy_count(s.w.g) THEN s
    ELSE LET w == s.w
             enemy == w.g.enemies[s.j]
             d2 == Dist2(enemy.x, enemy.y, p.target_x, p.target_y)
         IN IF ~enemy.active \/ ~(d2 < Sq(enemy.radius))
            THEN [w |-> w, j |-> s.j + 1, brk |-> FALSE]
            ELSE IF p.tower_type = "Triangle"
            THEN [w |-> Splash(w, p.target_x, p.target_y, p.damage),
                  j |-> s.j, brk |-> TRUE]
            ELSE LET slowed ==
                         IF p.tower_type = "Square"
                         THEN [enemy EXCEPT !.speed = RoundDiv(enemy.speed * 8, 10)]
                         ELSE enemy
                     r == takeDamage(slowed, p.damage * HealthScale)
                     w1 == [w EXCEPT !.g.enemies[s.j] = r.e]
                 IN IF r.killed
                    THEN LET w2 == KillEnemy(w1, s.j)
                         IN [w |-> w2, j |-> s.j,
                             brk |-> ~(s.j <= enemy_count(w2.g))]
                    ELSE [w |-> w1, j |-> s.j, brk |-> TRUE]

RECURSIVE CollideIterate(_, _, _)
CollideIterate(s, p, N) ==
    IF N = 0 THEN s
    ELSE IF N = 1 THEN CollideStep(s, p)
    ELSE LET half == CollideIterate(s, p, N \div 2)
         IN IF half.brk \/ half.j > enemy_count(half.w.g) THEN half
            ELSE CollideIterate(half, p, N - N \div 2)

\* lines 523-615
Collide(w, p) ==
    CollideIterate([w |-> w, j |-> 1, brk |-> FALSE], p, enemy_count(w.g)).w

\* the projectile step that keeps a projectile whose collision scan matched
\* no enemy
ProjectileStep_keepUnmatched(s, delta_time) ==
    IF s.i > projectile_count(s.w.g) THEN s
    ELSE LET w == s.w
             r == Projectile_update(w.g.projectiles[s.i], delta_time)
             w1 == [w EXCEPT !.g.projectiles[s.i] = r.p,
                             !.obs.proj_after_over =
                                 w.obs.proj_after_over
                                 + (IF w.g.state = "GameOver" THEN 1 ELSE 0),
                             !.obs.flights =
                                 Append(w.obs.flights,
                                        [before |-> w.g.projectiles[s.i],
                                         after |-> r.p, hit |-> r.hit])]
         IN IF r.hit
            THEN LET w2 == Collide(w1, r.p)
                 IN IF w2.g.enemies = w1.g.enemies
                    THEN [w |-> w1, i |-> s.i + 1]
                    ELSE [w |-> [w2 EXCEPT
                              !.g.projectiles = SwapRemove(w2.g.projectiles, s.i),
                              !.obs.impacts =
                                  Append(w2.obs.impacts,
                                         [p |-> r.p, before |-> w1.g.enemies,
                                          after |-> w2.g.enemies,
                                          paid |-> w2.g.money - w1.g.money])],
                          i |-> s.i]
            ELSE [w |-> w1, i |-> s.i + 1]

\* lines 518-622: one iteration of the projectile loop; s is <w, i>
ProjectileStep(s, delta_time) ==
    IF s.i > projectile_count(s.w.g) THEN s
    ELSE LET w == s.w
             r == Projectile_update(w.g.projectiles[s.i], delta_time)
             w1 == [w EXCEPT !.g.projectiles[s.i] = r.p,
                             !.obs.proj_after_over =
                                 w.obs.proj_after_over
                                 + (IF w.g.state = "GameOver" THEN 1 ELSE 0),
                             !.obs.flights =
                                 Append(w.obs.flights,
                                        [before |-> w.g.projectiles[s.i],
                                         after |-> r.p, hit |-> r.hit])]
         IN IF r.hit
            THEN LET w2 == Collide(w1, r.p)
                 IN [w |-> [w2 EXCEPT
                              !.g.projectiles = SwapRemove(w2.g.projectiles, s.i),
                              !.obs.impacts =
                                  Append(w2.obs.impacts,
                                         [p |-> r.p, before |-> w1.g.enemies,
                                          after |-> w2.g.enemies,
                                          paid |-> w2.g.money - w1.g.money])],
                     i |-> s.i]
            ELSE [w |-> w1, i |-> s.i + 1]

RECURSIVE ProjectileIterate(_, _, _)
ProjectileIterate(s, delta_time, N) ==
    IF N = 0 THEN s
    ELSE IF N = 1 THEN ProjectileStep(s, delta_time)
    ELSE LET half == ProjectileIterate(s, delta_time, N \div 2)
         IN IF half.i > projectile_count(half.w.g) THEN half
            ELSE ProjectileIterate(half, delta_time, N - N \div 2)

\* lines 517-623
UpdateProjectiles(w, delta_time) ==
    ProjectileIterate([w |-> w, i |-> 1], delta_time, projectile_count(w.g)).w

\* updateGame with the enemy loop run before the tower loop
updateGame_moveFirst(g, delta_time, ub) ==
    LET g1 == WavePacing(g, delta_time)
        g2 == Spawning(g1, delta_time)
        spawned == SubSeq(g2.enemies, enemy_count(g1) + 1, enemy_count(g2))
        w3 == UpdateEnemies([g |-> g2, obs |-> [NoObs EXCEPT !.spawned = spawned]],
                            delta_time, ub)
        w4 == IF w3.obs.trapped THEN w3 ELSE UpdateTowers(w3, delta_time)
    IN IF w4.obs.trapped THEN w4 ELSE UpdateProjectiles(w4, delta_time)

\* lines 435-624
updateGame(g, delta_time, ub) ==
    LET g1 == WavePacing(g, delta_time)
        g2 == Spawning(g1, delta_time)
        spawned == SubSeq(g2.enemies, enemy_count(g1) + 1, enemy_count(g2))
        w3 == UpdateTowers([g |-> g2, obs |-> [NoObs EXCEPT !.spawned = spawned]],
                           delta_time)
        w4 == UpdateEnemies(w3, delta_time, ub)
    IN IF w4.obs.trapped THEN w4 ELSE UpdateProjectiles(w4, delta_time)

\* --------------------------------------------------- exported operations
\* export fn init: canvas_width / canvas_height only feed the drawing calls
init == GameData_init

\* resetGame without the assignment of line 372
resetGame_inMenu == GameData_init

\* export fn resetGame
resetGame == [GameData_init EXCEPT !.state = "Playing"]

\* update without the state test of lines 378-381
update_anyState(g, delta_time, ub) == updateGame(g, delta_time, ub)

\* export fn update
update(g, delta_time, ub) ==
    IF g.state # "Playing" THEN [g |-> g, obs |-> NoObs]
    ELSE updateGame(g, delta_time, ub)

\* the grid cell centre a click is snapped to (lines 423-424)
\* the snap without the half cell of lines 423-424: the corner of the cell
SnapToGrid_corner(c) ==
    (c \div (GRID_SIZE * PosScale)) * (GRID_SIZE * PosScale)

SnapToGrid(c) ==
    (c \div (GRID_SIZE * PosScale)) * (GRID_SIZE * PosScale)
      + (GRID_SIZE * PosScale) \div 2

\* handleClick that only resumes play on GameOver, without resetGame
handleClick_noReset(g, x, y) ==
    IF g.state # "Playing" THEN [g EXCEPT !.state = "Playing"]
    ELSE IF g.selected_tower_type # "None"
    THEN addTower(g, SnapToGrid(x), SnapToGrid(y), g.selected_tower_type).g
    ELSE g

\* export fn handleClick
handleClick(g, x, y) ==
    IF g.state = "Menu" THEN [g EXCEPT !.state = "Playing"]
    ELSE IF g.state = "Paused" THEN [g EXCEPT !.state = "Playing"]
    ELSE IF g.state = "GameOver" THEN resetGame
    ELSE IF g.selected_tower_type # "None"
    THEN addTower(g, SnapToGrid(x), SnapToGrid(y), g.selected_tower_type).g
    ELSE g

\* canPlaceTower without the selection and affordability tests of lines
\* 790-794
canPlaceTower_anySelection(g, x, y) ==
    IF g.state # "Playing" THEN FALSE
    ELSE IF TooClose(g.path, x, y) THEN FALSE
    ELSE IF TooClose(g.towers, x, y) THEN FALSE
    ELSE TRUE

\* export fn canPlaceTower
canPlaceTower(g, x, y) ==
    IF g.state # "Playing" THEN FALSE
    ELSE IF g.selected_tower_type = "None" THEN FALSE
    ELSE IF g.money < Tower_init(x, y, g.selected_tower_type).cost THEN FALSE
    ELSE IF TooClose(g.path, x, y) THEN FALSE
    ELSE IF TooClose(g.towers, x, y) THEN FALSE
    ELSE TRUE

\* selectTowerType with the codes counted from 0
selectTowerType_fromZero(g, tower_type) ==
    [g EXCEPT !.selected_tower_type =
        CASE tower_type = 0 -> "Line"
          [] tower_type = 1 -> "Triangle"
          [] tower_type = 2 -> "Square"
          [] tower_type = 3 -> "Pentagon"
          [] OTHER -> "None"]

\* export fn selectTowerType (tower_type: u32)
selectTowerType(g, tower_type) ==
    [g EXCEPT !.selected_tower_type =
        CASE tower_type = 1 -> "Line"
          [] tower_type = 2 -> "Triangle"
          [] tower_type = 3 -> "Square"
          [] tower_type = 4 -> "Pentagon"
          [] OTHER -> "None"]

\* getTowerRange with the range of the Line kind for no selection
getTowerRange_lineForNone(g) ==
    IF g.selected_tower_type = "None" THEN Tower_init(0, 0, "Line").range
    ELSE Tower_init(0, 0, g.selected_tower_type).range

\* getTowerRange, declared by WasmModule (part_003:199) and called by
\* WasmLoader.getTowerRange (part_000:348-351); main.zig has no such export,
\* so it is modelled from its specification: the range of the selected kind,
\* 0 if none is selected
getTowerRange(g) ==
    IF g.selected_tower_type = "None" THEN 0
    ELSE Tower_init(0, 0, g.selected_tower_type).range

\* -------------------------------------------------------------- the host
\* GameApplication.togglePause (part_002:126-141): the new isPaused and
\* whether an animation frame is requested (animationFrameId # null)
togglePause(paused, frame) ==
    IF ~paused THEN [isPaused |-> TRUE, animating |-> FALSE]
    ELSE [isPaused |-> FALSE, animating |-> TRUE]

\* ------------------------------------------------------------ state
VARIABLES
    game,       \* the global `game: GameData` of main.zig
    isPaused,   \* GameApplication.isPaused
    animating,  \* GameApplication.animationFrameId # null
    ev,         \* the last call: operation, arguments, result, state before
    updates,    \* number of update calls made in Playing (bounded)
    shotClock,  \* per tower: the time stepped since its last shot
    ledger,     \* money spent on towers and earned by kills since the reset
    now,        \* performance.now(), in 1/TimeScale s
    lastTimestamp,  \* GameApplication.lastTimestamp, in 1/TimeScale s
    frame       \* the last two animate calls since the loop was started

vars ==
    << game, isPaused, animating, ev, updates, shotClock, ledger, now,
       lastTimestamp,
       frame >>

\* the host's clock, its timestamp and the record of its frames
host == << now, lastTimestamp, frame >>

\* frame.last is the latest animate call since the animation loop was last
\* started and frame.before the one before it: the timestamp passed in, the
\* lastTimestamp it was measured from, and whether it reached the engine
NoFrame == [timestamp |-> 0 - 1, since |-> 0 - 1, forwarded |-> FALSE]
NoFrames == [last |-> NoFrame, before |-> NoFrame]

Ev(op, x, y, id, dt, ret, obs, pre) ==
    [op |-> op, x |-> x, y |-> y, id |-> id, dt |-> dt, ret |-> ret,
     obs |-> obs, pre |-> pre]

\* shotClock[t], for tower t of game.towers:
\*   since  the deltas of the updates in Playing since the update in which
\*          the tower last fired, a negative delta counting as no time;
\*          -1 while no shot of the tower is known
\*   steps  the number of those updates
\*   gap    the value of since when the tower last fired, -1 if unknown
NeverShot == [since |-> 0 - 1, steps |-> 0, gap |-> 0 - 1]

Elapsed(delta_time) == IF delta_time < 0 THEN 0 ELSE delta_time

\* the clock of a tower as far as its fields tell: a tower in cooldown fired
\* at least cooldown_max - cooldown ago
ClockOf(tower) ==
    IF tower.cooldown > 0 /\ tower.cooldown <= tower.cooldown_max
    THEN [NeverShot EXCEPT !.since = tower.cooldown_max - tower.cooldown]
    ELSE NeverShot

ClocksOf(g) == [t \in 1..tower_count(g) |-> ClockOf(g.towers[t])]

\* the clocks after the call recorded in e took the towers to those of g
History(h, g, e) ==
    [t \in 1..tower_count(g) |->
        IF t > Len(h) THEN NeverShot
        ELSE IF e.op = "update" /\ e.pre.state = "Playing"
        THEN LET known == h[t].since >= 0
                 since == h[t].since + Elapsed(e.dt)
             IN IF \E k \in 1..Len(e.obs.shots) : e.obs.shots[k].tower = t
                THEN [since |-> 0, steps |-> 0,
                      gap |-> IF known THEN since ELSE 0 - 1]
                ELSE IF known
                THEN [h[t] EXCEPT !.since = since, !.steps = h[t].steps + 1]
                ELSE h[t]
        ELSE h[t]]

\* ------------------------------------------------------------ bounds
MaxUpdates == 2

\* inputs: tower-type codes, deltas (in 1/TimeScale s), click points (units)
TypeIds == 0..5
Deltas == {0, 5, 400}
RunDelta == TimeScale \div 16
ClickPoints ==
    { << 100, 60 >>, << 110, 70 >>, << 125, 60 >>, << 161, 81 >>,
      << 190, 110 >>, << 300, 200 >> }
UbOutcomes == {"trap", "wrap"}

\* seq[lo] + ... + seq[hi], for a sequence of integers
RECURSIVE Sum(_, _, _)
Sum(seq, lo, hi) ==
    IF lo > hi THEN 0
    ELSE IF lo = hi THEN seq[lo]
    ELSE LET mid == (lo + hi) \div 2
         IN Sum(seq, lo, mid) + Sum(seq, mid + 1, hi)

\* the sum of the values of the enemies of a sequence
SumValue(enemies) ==
    Sum([k \in 1..Len(enemies) |-> enemies[k].value], 1, Len(enemies))

\* the sum of the costs of the towers of a sequence
SumCost(towers) ==
    Sum([k \in 1..Len(towers) |-> towers[k].cost], 1, Len(towers))

\* ledger.spent is the sum of the costs of the towers placed since the last
\* reset and ledger.earned the sum of the values of the enemies killed since
NoLedger == [spent |-> 0, earned |-> 0]

\* the ledger of game data g met in the middle of a game: its towers are
\* the towers placed, and the kills account for the rest of its money
LedgerOf(g) ==
    [spent |-> SumCost(g.towers),
     earned |-> g.money - 100 + SumCost(g.towers)]

\* the ledger after the call e that led to game data g: a reset clears it,
\* a click adds the cost of the tower it stored, an update adds the values
\* of the enemies its impacts removed
Account(l, g, e) ==
    IF \/ e.op \in {"init", "resetGame", "startGame"}
       \/ e.op = "handleClick" /\ e.pre.state = "GameOver"
    THEN NoLedger
    ELSE IF e.op = "handleClick"
    THEN [l EXCEPT !.spent =
             l.spent + SumCost(SubSeq(g.towers, Len(e.pre.towers) + 1,
                                      Len(g.towers)))]
    ELSE IF e.op = "update"
    THEN [l EXCEPT !.earned =
             l.earned
               + Sum([k \in 1..Len(e.obs.impacts) |->
                         SumValue(e.obs.impacts[k].before)
                           - SumValue(e.obs.impacts[k].after)],
                     1, Len(e.obs.impacts))]
    ELSE l

\* ------------------------------------------------------------ actions
Initialize ==
    /\ game' = init
    /\ ev' = Ev("init", 0, 0, 0, 0, FALSE, NoObs, game)
    /\ UNCHANGED << isPaused, animating, updates, host >>
    /\ shotClock' = History(shotClock, game', ev')
    /\ ledger' = Account(ledger, game', ev')

ResetGame ==
    /\ game' = resetGame
    /\ ev' = Ev("resetGame", 0, 0, 0, 0, FALSE, NoObs, game)
    /\ UNCHANGED << isPaused, animating, updates, host >>
    /\ shotClock' = History(shotClock, game', ev')
    /\ ledger' = Account(ledger, game', ev')

SelectTowerType(id) ==
    /\ game' = selectTowerType(game, id)
    /\ ev' = Ev("selectTowerType", 0, 0, id, 0, FALSE, NoObs, game)
    /\ UNCHANGED << isPaused, animating, updates, host >>
    /\ shotClock' = History(shotClock, game', ev')
    /\ ledger' = Account(ledger, game', ev')

HandleClick(x, y) ==
    /\ game' = handleClick(game, x * PosScale, y * PosScale)
    /\ ev' = Ev("handleClick", x * PosScale, y * PosScale, 0, 0, FALSE, NoObs, game)
    /\ UNCHANGED << isPaused, animating, updates, host >>
    /\ shotClock' = History(shotClock, game', ev')
    /\ ledger' = Account(ledger, game', ev')

CanPlaceTower(x, y) ==
    /\ ev' = Ev("canPlaceTower", x * PosScale, y * PosScale, 0, 0,
                canPlaceTower(game, x * PosScale, y * PosScale), NoObs, game)
    /\ UNCHANGED << game, isPaused, animating, updates, shotClock, ledger,
                    host >>

GetTowerRange ==
    /\ ev' = Ev("getTowerRange", 0, 0, 0, 0, getTowerRange(game), NoObs, game)
    /\ UNCHANGED << game, isPaused, animating, updates, shotClock, ledger,
                    host >>

Update(dt) ==
    \E ub \in UbOutcomes :
        LET w == update(game, dt, ub)
        IN /\ game' = w.g
           /\ ev' = Ev("update", 0, 0, 0, dt, FALSE, w.obs, game)
           /\ UNCHANGED << isPaused, animating, host >>
           /\ shotClock' = History(shotClock, game', ev')
           /\ ledger' = Account(ledger, game', ev')

\* GameApplication.startAnimationLoop (part_002:144-147), called when no
\* frame is requested
StartAnimationLoop(requested) ==
    /\ lastTimestamp' = IF requested THEN lastTimestamp ELSE now
    /\ frame' = IF requested THEN frame ELSE NoFrames
    /\ UNCHANGED now

TogglePause ==
    LET h == togglePause(isPaused, animating)
    IN /\ isPaused' = h.isPaused
       /\ animating' = h.animating
       /\ IF h.isPaused THEN UNCHANGED host ELSE StartAnimationLoop(animating)
       /\ ev' = Ev("togglePause", 0, 0, 0, 0, FALSE, NoObs, game)
       /\ UNCHANGED << game, updates, shotClock, ledger >>

\* ------------------------------------------------------------ Spec
\* every sequence of engine calls from construction, with at most MaxUpdates
\* update calls in Playing
Init ==
    /\ game = init
    /\ isPaused = FALSE
    /\ animating = FALSE
    /\ ev = Ev("init", 0, 0, 0, 0, FALSE, NoObs, init)
    /\ updates = 0
    /\ shotClock = ClocksOf(game)
    /\ ledger = LedgerOf(game)
    /\ now = 0
    /\ lastTimestamp = 0
    /\ frame = NoFrames

BoundedUpdate ==
    /\ game.state = "Playing" => updates < MaxUpdates
    /\ \E dt \in Deltas : Update(dt)
    /\ updates' = IF game.state = "Playing" THEN updates + 1 ELSE updates

Next ==
    \/ Initialize
    \/ ResetGame
    \/ \E id \in TypeIds : SelectTowerType(id)
    \/ \E pt \in ClickPoints : HandleClick(pt[1], pt[2])
    \/ \E pt \in ClickPoints : CanPlaceTower(pt[1], pt[2])
    \/ GetTowerRange
    \/ BoundedUpdate

Spec == Init /\ [][Next]_vars

\* ------------------------------------------------------------ SpecRun
\* the game left to run from construction: the host clicks only outside
\* Playing (start, restart) and steps with the constant delta RunDelta
RunUpdate == Update(RunDelta) /\ UNCHANGED updates

RunClick == game.state # "Playing" /\ HandleClick(300, 200)

NextRun == RunClick \/ RunUpdate

SpecRun == Init /\ [][NextRun]_vars

\* ------------------------------------------------------------ SpecInputs
\* The exported functions applied to a bounded family of GameData values:
\* the constructed state, the reset state, a Paused state (a value of
\* GameState that handleClick and update test for, though no statement of
\* main.zig assigns it) and the GameOver state that SpecRun ends in.  From
\* each, the calls of Next with one update call in Playing.
WaveThreeEnemy(x, y, path_index) ==
    [Enemy_init(x, y, 35 * HealthScale, 56 * SpeedScale, 8)
       EXCEPT !.path_index = path_index]

GameOverSample ==
    [resetGame EXCEPT
       !.state = "GameOver", !.lives = 0, !.wave = 3,
       !.enemies = << WaveThreeEnemy(9553, 2929, 6), WaveThreeEnemy(9570, 3881, 6),
                      WaveThreeEnemy(9586, 4833, 6), WaveThreeEnemy(9595, 5785, 6),
                      WaveThreeEnemy(11840, 6385, 7), WaveThreeEnemy(10888, 6368, 7),
                      WaveThreeEnemy(9936, 6351, 7) >>]

PausedSample == [resetGame EXCEPT !.state = "Paused"]

InputStates == { init, resetGame, PausedSample, GameOverSample }

InitInputs ==
    /\ game \in InputStates
    /\ isPaused = FALSE
    /\ animating = FALSE
    /\ ev = Ev("init", 0, 0, 0, 0, FALSE, NoObs, game)
    /\ updates = MaxUpdates - 1
    /\ shotClock = ClocksOf(game)
    /\ ledger = LedgerOf(game)
    /\ now = 0
    /\ lastTimestamp = 0
    /\ frame = NoFrames

SpecInputs == InitInputs /\ [][Next]_vars

\* ------------------------------------------------------------ SpecLate
\* The engine late in a game, two towers short of the capacity of the towers
\* array: wave 16 is over, one enemy of wave 2 (value 7) escaped and every
\* other enemy was killed (income 5525 on top of the initial 100), and 79
\* Line and 19 Square towers were bought (5375), on rows 6..14 of the grid.
\* From there, the calls of Next with one update call.

\* centre of grid cell k of the 20 x 15 grid, row by row
CellCentre(k) ==
    [x |-> ((k % 20) * GRID_SIZE + GRID_SIZE \div 2) * PosScale,
     y |-> ((k \div 20) * GRID_SIZE + GRID_SIZE \div 2) * PosScale]

\* the cells of rows 6..14 whose centre is clear of the path
ClearCells ==
    { k \in 120..299 : ~TooClose(DefaultPath, CellCentre(k).x, CellCentre(k).y) }

\* towers on the first n clear cells, the first nSquare of them Square
LateTowers(n, nSquare) ==
    [i \in 1..n |->
        LET k == CHOOSE c \in ClearCells :
                     Cardinality({ j \in ClearCells : j <= c }) = i
        IN Tower_init(CellCentre(k).x, CellCentre(k).y,
                      IF i <= nSquare THEN "Square" ELSE "Line")]

LateSample ==
    [resetGame EXCEPT
       !.towers = LateTowers(TOWERS_LEN - 2, 19),
       !.money = 100 + 5425 - (79 * 50 + 19 * 75),
       !.lives = 19,
       !.wave = 16,
       !.wave_timer = 2 * TimeScale]

InitLate ==
    /\ game = LateSample
    /\ isPaused = FALSE
    /\ animating = FALSE
    /\ ev = Ev("init", 0, 0, 0, 0, FALSE, NoObs, game)
    /\ updates = MaxUpdates - 1
    /\ shotClock = ClocksOf(game)
    /\ ledger = LedgerOf(game)
    /\ now = 0
    /\ lastTimestamp = 0
    /\ frame = NoFrames

LateClick == \E pt \in ClickPoints : HandleClick(pt[1], pt[2])

LateSelect == \E id \in {0, 1} : SelectTowerType(id)

LateUpdate == BoundedUpdate

NextLate == LateClick \/ LateSelect \/ LateUpdate

SpecLate == InitLate /\ [][NextLate]_vars

\* ------------------------------------------------------------ SpecCombat
\* The engine in the middle of a wave, from three situations: the player
\* selects kinds and places towers, then the engine is stepped at most
\* MaxCombatUpdates times with the deltas CombatDeltas (1/16 s, 0.3 s and a
\* negative delta).
MaxCombatUpdates == 5

CombatDeltas == { 0 - RunDelta, RunDelta, (3 * TimeScale) \div 10 }
CombatClicks == { << 60, 60 >>, << 220, 180 >>, << 260, 100 >> }
CombatTypeIds == {1, 2}

\* speed after n Square impacts (line 577)
RECURSIVE Slowed(_, _)
Slowed(speed, n) ==
    IF n = 0 THEN speed ELSE Slowed(RoundDiv(speed * 8, 10), n - 1)

\* an enemy spawned in the given wave, at (x, y) in units
CombatEnemy(wave, x, y, path_index) ==
    [Enemy_init(x * PosScale, y * PosScale, (20 + wave * 5) * HealthScale,
                (50 + wave * 2) * SpeedScale, 5 + wave)
       EXCEPT !.path_index = path_index]

\* Wave 1, nothing bought yet: the first enemy has walked 94 units, the
\* second, spawned 1.3 s later, 26 units in the 0.5 s since; both are 34
\* units either side of x = 60, equidistant from the cells of column 1.
FieldSample ==
    [resetGame EXCEPT
       !.wave = 1,
       !.enemies = << CombatEnemy(1, 94, 120, 1), CombatEnemy(1, 26, 120, 1) >>,
       !.enemies_to_spawn = 5,
       !.spawn_timer = TimeScale \div 2]

\* Wave 1, nothing bought yet: five enemies 57 units (1.1 s) apart along the
\* path, the first past the corner at (200, 120).
CornerSample ==
    [resetGame EXCEPT
       !.wave = 1,
       !.enemies = << CombatEnemy(1, 200, 150, 2), CombatEnemy(1, 173, 120, 1),
                      CombatEnemy(1, 116, 120, 1), CombatEnemy(1, 59, 120, 1),
                      CombatEnemy(1, 2, 120, 1) >>,
       !.enemies_to_spawn = 2,
       !.spawn_timer = 3]

\* Wave 2 after a clean wave 1 (7 kills of value 6): a Line tower bought at
\* the start and a Square tower bought from the income, both mid-cooldown.
\* The first enemy was hit three times by the Square tower (speed * 0.8
\* each, 5 damage each) and once by the Line tower (10 damage); the second,
\* unhurt, has caught up to 6 units behind it; the third is 0.5 s old.
BunchedSample ==
    [resetGame EXCEPT
       !.wave = 2,
       !.money = 100 + 7 * 6 - (50 + 75),
       !.towers =
           << [Tower_init(100 * PosScale, 100 * PosScale, "Line")
                 EXCEPT !.cooldown = TimeScale \div 10],
              [Tower_init(140 * PosScale, 140 * PosScale, "Square")
                 EXCEPT !.cooldown = (4 * TimeScale) \div 10] >>,
       !.enemies =
           << [CombatEnemy(2, 110, 120, 1)
                 EXCEPT !.health = 5 * HealthScale,
                        !.speed = RoundDiv(RoundDiv(RoundDiv(
                                      54 * SpeedScale * 8, 10) * 8, 10) * 8, 10)],
              CombatEnemy(2, 104, 120, 1),
              CombatEnemy(2, 27, 120, 1) >>,
       !.enemies_to_spawn = 6,
       !.spawn_timer = TimeScale \div 2]

\* Wave 1 with a Line tower bought at the start and two kills (value 6)
\* made: one enemy is 4 units from the last waypoint; another, 96 units
\* behind it and hit twice by the tower (10 damage each, 5 health left), is
\* 2 units short of the target point of a projectile that has arrived there.
LastLegSample ==
    [resetGame EXCEPT
       !.wave = 1,
       !.money = 100 - 50 + 2 * 6,
       !.towers = << [Tower_init(660 * PosScale, 340 * PosScale, "Line")
                        EXCEPT !.cooldown = (4 * TimeScale) \div 10] >>,
       !.enemies =
           << CombatEnemy(1, 796, 400, 7),
              [CombatEnemy(1, 700, 400, 7) EXCEPT !.health = 5 * HealthScale],
              CombatEnemy(1, 600, 390, 6) >>,
       !.projectiles =
           << [Projectile_init(660 * PosScale, 340 * PosScale,
                               702 * PosScale, 400 * PosScale, 10, "Line")
                 EXCEPT !.x = 700 * PosScale, !.y = 398 * PosScale] >>,
       !.enemies_to_spawn = 2,
       !.spawn_timer = TimeScale \div 4]

\* BunchedSample two steps of 1/16 s after its Square tower fired a fourth
\* time at the first enemy, then at (106, 120): the projectile has flown
\* 37.5 units, past the target point 36 units away, and lies within 5 units
\* of it.
SlowedSample ==
    [BunchedSample EXCEPT
       !.towers[2].cooldown = (8 * TimeScale) \div 10 - 2 * RunDelta,
       !.projectiles =
           << [Projectile_init(140 * PosScale, 140 * PosScale,
                               106 * PosScale, 120 * PosScale, 5, "Square")
                 EXCEPT !.x = 105 * PosScale, !.y = 119 * PosScale] >>]

\* Wave 3 on the last life: a Square tower bought at the start has made 4
\* kills in wave 1 (value 6) and 19 enemies have walked through (3 of wave
\* 1, the 9 of wave 2, 7 of wave 3).  Of the two enemies on the field the
\* first, slowed by two Square impacts, has been caught up by the second:
\* both are within 5 units of the last waypoint (800, 400).
LastLifeSample ==
    [resetGame EXCEPT
       !.wave = 3,
       !.lives = 1,
       !.money = 100 - 75 + 4 * 6,
       !.selected_tower_type = "Square",
       !.towers = << [Tower_init(740 * PosScale, 340 * PosScale, "Square")
                        EXCEPT !.cooldown = (5 * TimeScale) \div 10] >>,
       !.enemies =
           << [CombatEnemy(3, 797, 400, 7)
                 EXCEPT !.health = (35 - 2 * 5) * HealthScale,
                        !.speed = Slowed(56 * SpeedScale, 2)],
              CombatEnemy(3, 796, 400, 7) >>,
       !.enemies_to_spawn = 2,
       !.spawn_timer = TimeScale \div 4]

CombatStates ==
    { FieldSample, CornerSample, BunchedSample, LastLegSample, SlowedSample,
      LastLifeSample }

InitCombat ==
    /\ game \in CombatStates
    /\ isPaused = FALSE
    /\ animating = FALSE
    /\ ev = Ev("init", 0, 0, 0, 0, FALSE, NoObs, game)
    /\ updates = 0
    /\ shotClock = ClocksOf(game)
    /\ ledger = LedgerOf(game)
    /\ now = 0
    /\ lastTimestamp = 0
    /\ frame = NoFrames

CombatClick ==
    updates = 0 /\ \E pt \in CombatClicks : HandleClick(pt[1], pt[2])

CombatSelect ==
    updates = 0 /\ \E id \in CombatTypeIds : SelectTowerType(id)

CombatUpdate ==
    /\ updates < MaxCombatUpdates
    /\ \E dt \in CombatDeltas : Update(dt)
    /\ updates' = updates + 1

NextCombat == CombatClick \/ CombatSelect \/ CombatUpdate

SpecCombat == InitCombat /\ [][NextCombat]_vars

\* ---------------------------------------------------------- SpecCapacity
\* The engine late in wave 48 with the enemy and projectile arrays at or one
\* short of their lengths: the player selects a kind and places towers, then
\* the engine is stepped at most MaxCapacityUpdates times with the deltas
\* CapacityDeltas (1/16 s and 0.3 s).
MaxCapacityUpdates == 3

CapacityDeltas == { RunDelta, (3 * TimeScale) \div 10 }
CapacityClicks == { << 100, 60 >>, << 60, 60 >> }
CapacityTypeIds == {1}

\* Wave 48 (101 enemies of health 260, speed 146, value 53), none killed and
\* none through: the given number of them are on the first leg of the path one unit
\* apart, each slowed to a crawl by 25 Square impacts (5 damage each), the
\* rest still to spawn, the spawn timer at exactly 1 s.  Four Square towers
\* are mid-cooldown and the Square kind is selected.  The given number of
\* Square projectiles are in flight 9.375 units from their targets: at
\* 1/16 s a step they move 18.75 units, to 9.375 units beyond the target,
\* and never come within 5 units of it.
CapacitySample(enemies, projectiles) ==
    [resetGame EXCEPT
       !.wave = 48,
       !.money = 120,
       !.selected_tower_type = "Square",
       !.towers =
           << [Tower_init(100 * PosScale, 180 * PosScale, "Square")
                 EXCEPT !.cooldown = TimeScale \div 10],
              [Tower_init(60 * PosScale, 180 * PosScale, "Square")
                 EXCEPT !.cooldown = (3 * TimeScale) \div 10],
              [Tower_init(140 * PosScale, 180 * PosScale, "Square")
                 EXCEPT !.cooldown = (5 * TimeScale) \div 10],
              [Tower_init(140 * PosScale, 60 * PosScale, "Square")
                 EXCEPT !.cooldown = (7 * TimeScale) \div 10] >>,
       !.enemies =
           [i \in 1..enemies |->
               [CombatEnemy(48, 41 + i, 120, 1)
                  EXCEPT !.health = (260 - 25 * 5) * HealthScale,
                         !.speed = Slowed(146 * SpeedScale, 25)]],
       !.projectiles =
           [j \in 1..projectiles |->
               [Projectile_init(100 * PosScale, 180 * PosScale,
                                (42 + (j % 90)) * PosScale, 120 * PosScale,
                                5, "Square")
                  EXCEPT !.x = (42 + (j % 90)) * PosScale + 150,
                         !.y = 120 * PosScale]],
       !.enemies_to_spawn = 101 - enemies,
       !.spawn_timer = TimeScale]

CapacityStates ==
    { CapacitySample(ENEMIES_LEN - 1, PROJECTILES_LEN - 1),
      CapacitySample(ENEMIES_LEN, PROJECTILES_LEN) }

InitCapacity ==
    /\ game \in CapacityStates
    /\ isPaused = FALSE
    /\ animating = FALSE
    /\ ev = Ev("init", 0, 0, 0, 0, FALSE, NoObs, game)
    /\ updates = 0
    /\ shotClock = ClocksOf(game)
    /\ ledger = LedgerOf(game)
    /\ now = 0
    /\ lastTimestamp = 0
    /\ frame = NoFrames

CapacityClick ==
    updates = 0 /\ \E pt \in CapacityClicks : HandleClick(pt[1], pt[2])

CapacitySelect ==
    updates = 0 /\ \E id \in CapacityTypeIds : SelectTowerType(id)

CapacityUpdate ==
    /\ updates < MaxCapacityUpdates
    /\ \E dt \in CapacityDeltas : Update(dt)
    /\ updates' = updates + 1

NextCapacity == CapacityClick \/ CapacitySelect \/ CapacityUpdate

SpecCapacity == InitCapacity /\ [][NextCapacity]_vars

\* ------------------------------------------------------------ SpecHost
\* the engine driven by GameApplication: the start button, the pause
\* toggle and the animation loop, which steps the engine while a frame is
\* requested (at most MaxHostUpdates times)
MaxHostUpdates == 60

\* GameApplication.startGame (part_002:109-123)
StartGame ==
    /\ game' = resetGame
    /\ animating' = TRUE
    /\ isPaused' = FALSE
    /\ StartAnimationLoop(animating)
    /\ ev' = Ev("startGame", 0, 0, 0, 0, FALSE, NoObs, game)
    /\ UNCHANGED updates
    /\ shotClock' = History(shotClock, game', ev')
    /\ ledger' = Account(ledger, game', ev')

\* GameApplication.animate without line 153: the timestamp of a skipped
\* frame is not kept
Frame_staleTimestamp(gap) ==
    LET timestamp == now + gap
        deltaTime == timestamp - lastTimestamp
        called == [timestamp |-> timestamp, since |-> lastTimestamp,
                   forwarded |-> ~(deltaTime * 10 > TimeScale)]
    IN /\ animating
       /\ now' = timestamp
       /\ frame' = [last |-> called, before |-> frame.last]
       /\ IF deltaTime * 10 > TimeScale
          THEN /\ ev' = Ev("skipFrame", 0, 0, 0, deltaTime, FALSE, NoObs, game)
               /\ UNCHANGED << game, isPaused, animating, shotClock, ledger,
                               lastTimestamp >>
          ELSE \E ub \in UbOutcomes :
                  LET w == update(game, deltaTime, ub)
                  IN /\ game' = w.g
                     /\ lastTimestamp' = timestamp
                     /\ ev' = Ev("update", 0, 0, 0, deltaTime, FALSE, w.obs, game)
                     /\ animating' = ~w.obs.trapped
                     /\ UNCHANGED isPaused
                     /\ shotClock' = History(shotClock, game', ev')
                     /\ ledger' = Account(ledger, game', ev')

\* GameApplication.animate (part_002:150-180), called back gap after the
\* previous event with the current time as timestamp.  A frame measured
\* above 0.1 s requests the next frame and returns; any other is passed to
\* the engine, and an engine call that throws (the trap of lives -= 1) ends
\* the loop in the catch block.
Frame(gap) ==
    LET timestamp == now + gap
        deltaTime == timestamp - lastTimestamp
        called == [timestamp |-> timestamp, since |-> lastTimestamp,
                   forwarded |-> ~(deltaTime * 10 > TimeScale)]
    IN /\ animating
       /\ now' = timestamp
       /\ lastTimestamp' = timestamp
       /\ frame' = [last |-> called, before |-> frame.last]
       /\ IF deltaTime * 10 > TimeScale
          THEN /\ ev' = Ev("skipFrame", 0, 0, 0, deltaTime, FALSE, NoObs, game)
               /\ UNCHANGED << game, isPaused, animating, shotClock, ledger >>
          ELSE \E ub \in UbOutcomes :
                  LET w == update(game, deltaTime, ub)
                  IN /\ game' = w.g
                     /\ ev' = Ev("update", 0, 0, 0, deltaTime, FALSE, w.obs, game)
                     /\ animating' = ~w.obs.trapped
                     /\ UNCHANGED isPaused
                     /\ shotClock' = History(shotClock, game', ev')
                     /\ ledger' = Account(ledger, game', ev')

\* animate with a frame every RunDelta
Animate ==
    /\ updates < MaxHostUpdates
    /\ Frame(RunDelta)
    /\ updates' = updates + 1

NextHost == StartGame \/ TogglePause \/ Animate

SpecHost == Init /\ [][NextHost]_vars

\* ----------------------------------------------------------- SpecFrames
\* GameApplication with its clock: the start button, the pause toggle, and
\* animation frames called back 12.5 ms, 0.1 s, 112.5 ms or 5 s after the
\* previous event; while no frame is requested time passes by the same
\* amounts.  At most MaxFrames such steps are taken.
MaxFrames == 5

FrameGaps == { 1, TimeScale \div 10, TimeScale \div 10 + 1, 5 * TimeScale }

FramesFrame ==
    /\ updates < MaxFrames
    /\ \E gap \in FrameGaps : Frame(gap)
    /\ updates' = updates + 1

\* time passing while no frame is requested
FramesElapse ==
    /\ ~animating
    /\ updates < MaxFrames
    /\ \E gap \in FrameGaps : now' = now + gap
    /\ updates' = updates + 1
    /\ UNCHANGED << game, isPaused, animating, ev, shotClock, ledger,
                    lastTimestamp,
                    frame >>

NextFrames == StartGame \/ TogglePause \/ FramesFrame \/ FramesElapse

SpecFrames == Init /\ [][NextFrames]_vars

\* ------------------------------------------------------------ SpecBuild
\* The player shopping in the middle of wave 3: a Line tower bought at the
\* start, waves 1 and 2 cleared (7 kills of value 6, 9 of value 7), two
\* enemies of wave 3 on the path, one projectile in flight.  Any kind is
\* selected and any of ClickPoints clicked, in any order.
BuildSample ==
    [resetGame EXCEPT
       !.wave = 3,
       !.money = 100 - 50 + 7 * 6 + 9 * 7,
       !.towers = << [Tower_init(60 * PosScale, 60 * PosScale, "Line")
                        EXCEPT !.cooldown = (3 * TimeScale) \div 10] >>,
       !.enemies = << CombatEnemy(3, 84, 120, 1), CombatEnemy(3, 11, 120, 1) >>,
       !.projectiles =
           << [Projectile_init(60 * PosScale, 60 * PosScale,
                               56 * PosScale, 120 * PosScale, 10, "Line")
                 EXCEPT !.y = 100 * PosScale] >>,
       !.enemies_to_spawn = 9,
       !.spawn_timer = (2 * TimeScale) \div 10]

InitBuild ==
    /\ game = BuildSample
    /\ isPaused = FALSE
    /\ animating = FALSE
    /\ ev = Ev("init", 0, 0, 0, 0, FALSE, NoObs, game)
    /\ updates = 0
    /\ shotClock = ClocksOf(game)
    /\ ledger = LedgerOf(game)
    /\ now = 0
    /\ lastTimestamp = 0
    /\ frame = NoFrames

BuildClick == \E pt \in ClickPoints : HandleClick(pt[1], pt[2])

BuildSelect == \E id \in TypeIds : SelectTowerType(id)

NextBuild == BuildClick \/ BuildSelect

SpecBuild == InitBuild /\ [][NextBuild]_vars

\* ------------------------------------------------------------ SpecFlight
\* Wave 40 when the host's frames have dropped to 10 a second (the largest
\* delta it forwards, part_002:155-159): two Line towers guard the last leg
\* of the path, nine enemies of the wave are still to come in, and a
\* projectile that the first tower fired from 75 units at an enemy then at
\* (615, 400) is 15 units short of that point.  Everything before ran at
\* frames short enough for enemies and projectiles to arrive.
FlightDelta == TimeScale \div 10

FlightSample ==
    [resetGame EXCEPT
       !.wave = 40,
       !.lives = 12,
       !.money = 35,
       !.towers = << Tower_init(660 * PosScale, 340 * PosScale, "Line"),
                     Tower_init(700 * PosScale, 340 * PosScale, "Line") >>,
       !.projectiles =
           << [Projectile_init(660 * PosScale, 340 * PosScale,
                               615 * PosScale, 400 * PosScale, 10, "Line")
                 EXCEPT !.x = 624 * PosScale, !.y = 388 * PosScale] >>,
       !.enemies_to_spawn = 9,
       !.spawn_timer = 0]

InitFlight ==
    /\ game = FlightSample
    /\ isPaused = FALSE
    /\ animating = FALSE
    /\ ev = Ev("init", 0, 0, 0, 0, FALSE, NoObs, game)
    /\ updates = 0
    /\ shotClock = ClocksOf(game)
    /\ ledger = LedgerOf(game)
    /\ now = 0
    /\ lastTimestamp = 0
    /\ frame = NoFrames

\* the animation loop: animate ends by requesting the next frame
\* (part_002:150-180), so frame follows frame.  Here updates is the number
\* of frames modulo 2.
NextFrameRequested == updates' = (updates + 1) % 2

\* the host's frame at the constant delta: one update call
FlightUpdate == Update(FlightDelta) /\ NextFrameRequested

NextFlight == FlightUpdate

\* the browser delivers every requested frame
SpecFlight ==
    InitFlight /\ [][NextFlight]_vars /\ WF_updates(NextFrameRequested)

\* --------------------------------------------------------- SpecTowerless
\* The game right after resetGame, left alone: no click is made, and every
\* frame calls update with the delta of the first frame.
TowerlessDeltas == {RunDelta, FlightDelta}

InitTowerless ==
    /\ game = resetGame
    /\ isPaused = FALSE
    /\ animating = FALSE
    /\ ev = Ev("resetGame", 0, 0, 0, 0, FALSE, NoObs, init)
    /\ updates = 0
    /\ shotClock = ClocksOf(game)
    /\ ledger = LedgerOf(game)
    /\ now = 0
    /\ lastTimestamp = 0
    /\ frame = NoFrames

TowerlessUpdate ==
    \E dt \in TowerlessDeltas :
        /\ ev.op = "update" => dt = ev.dt
        /\ Update(dt)
        /\ NextFrameRequested

NextTowerless == TowerlessUpdate

SpecTowerless ==
    InitTowerless /\ [][NextTowerless]_vars /\ WF_updates(NextFrameRequested)

\* ------------------------------------------------------------ SpecCanvas
\* The page as the player uses it: the start button, clicks on the canvas
\* and frames of 1/16 s.  The canvas is clicked on the waypoint (200, 120),
\* where no tower can stand, or in the far corner cell (60, 380), from where
\* a tower reaches no enemy.
CanvasPoints == { << 200, 120 >>, << 60, 380 >> }

\* the canvas click listener (part_002:224-237): canPlaceTower is asked
\* first, and handleClick is called only if it answers true
CanvasClick(x, y) ==
    IF canPlaceTower(game, x * PosScale, y * PosScale)
    THEN HandleClick(x, y)
    ELSE CanPlaceTower(x, y)

NextCanvas ==
    \/ StartGame
    \/ \E pt \in CanvasPoints : CanvasClick(pt[1], pt[2])
    \/ RunUpdate

SpecCanvas == Init /\ [][NextCanvas]_vars

\* ================================================================ claims
\* the last call was handleClick, made in Playing
ClickInPlaying == ev.op = "handleClick" /\ ev.pre.state = "Playing"

\* the cost of the selected kind in game data g (a kind is selected)
SelectedCost(g) == Tower_init(0, 0, g.selected_tower_type).cost

\* the click of ev would pass every test of addTower but the capacity test
OtherwiseValid(g, x, y) ==
    /\ g.selected_tower_type # "None"
    /\ g.money >= SelectedCost(g)
    /\ ~TooClose(g.path, SnapToGrid(x), SnapToGrid(y))
    /\ ~TooClose(g.towers, SnapToGrid(x), SnapToGrid(y))

\* C1: the tower count never exceeds 100, and a handleClick made in Playing
\* while 100 towers exist leaves the whole game data unchanged.
C1_TowerCapacity ==
    /\ tower_count(game) <= TOWERS_LEN
    /\ (ClickInPlaying /\ tower_count(ev.pre) = TOWERS_LEN) => game = ev.pre

\* an affordable, clear placement was attempted with 100 towers
C1_Witness ==
    /\ ClickInPlaying
    /\ tower_count(ev.pre) = TOWERS_LEN
    /\ OtherwiseValid(ev.pre, ev.x, ev.y)

\* C2: a handleClick in Playing with a selected kind that costs more than
\* the money changes neither money nor the towers nor their count, and
\* money is never negative.
C2_Affordability ==
    /\ game.money >= 0
    /\ (/\ ClickInPlaying
        /\ ev.pre.selected_tower_type # "None"
        /\ ev.pre.money < SelectedCost(ev.pre))
       => /\ game.money = ev.pre.money
          /\ game.towers = ev.pre.towers
          /\ tower_count(game) = tower_count(ev.pre)

\* an unaffordable placement was attempted on a free cell clear of the path
C2_Witness ==
    /\ ClickInPlaying
    /\ ev.pre.selected_tower_type # "None"
    /\ ev.pre.money < SelectedCost(ev.pre)
    /\ ~TooClose(ev.pre.path, SnapToGrid(ev.x), SnapToGrid(ev.y))
    /\ ~TooClose(ev.pre.towers, SnapToGrid(ev.x), SnapToGrid(ev.y))

\* C3 as stated: a handleClick in Playing at a point (x, y) within 40 units
\* of a waypoint or of the centre of an existing tower places no tower.
C3_Original ==
    (/\ ClickInPlaying
     /\ \/ TooClose(ev.pre.path, ev.x, ev.y)
        \/ TooClose(ev.pre.towers, ev.x, ev.y))
    => tower_count(game) = tower_count(ev.pre)

\* C3 amended: a handleClick in Playing places no tower when the point
\* (x, y) is within 40 units of a waypoint, or when the centre of the grid
\* cell containing (x, y) is within 40 units of the centre of an existing
\* tower.
C3_Clearance ==
    (/\ ClickInPlaying
     /\ \/ TooClose(ev.pre.path, ev.x, ev.y)
        \/ TooClose(ev.pre.towers, SnapToGrid(ev.x), SnapToGrid(ev.y)))
    => /\ tower_count(game) = tower_count(ev.pre)
       /\ game = ev.pre

\* an affordable placement was attempted on a cell whose centre is within
\* 40 units of an existing tower and clear of the path
C3_Witness ==
    /\ ClickInPlaying
    /\ ev.pre.selected_tower_type # "None"
    /\ ev.pre.money >= SelectedCost(ev.pre)
    /\ TooClose(ev.pre.towers, SnapToGrid(ev.x), SnapToGrid(ev.y))
    /\ ~TooClose(ev.pre.path, SnapToGrid(ev.x), SnapToGrid(ev.y))

\* the indices of the enemies of g that the next update takes past the last
\* waypoint: aimed at it (or beyond it) and within 5 units of it
Arriving(g) ==
    { i \in 1..enemy_count(g) :
        LET e == g.enemies[i]
            last == g.path[path_length(g)]
        IN \/ e.path_index >= path_length(g)
           \/ /\ e.path_index = path_length(g) - 1
              /\ Dist2(e.x, e.y, last.x, last.y) < Sq(5) }

\* the number of enemies the wave and spawn stages of the update of ev added
SpawnedBy(g, dt) ==
    enemy_count(Spawning(WavePacing(g, dt), dt)) - enemy_count(g)

\* the last call was update, made in Playing, and took an enemy to the end
EnemyArrived ==
    ev.op = "update" /\ ev.pre.state = "Playing" /\ Arriving(ev.pre) # {}

\* C4: an update in which an enemy passes the last waypoint decreases lives
\* by 1 for it and removes it in that update; when lives goes from 1 to 0
\* the state is GameOver when the update returns.
C4_LivesGameOver ==
    EnemyArrived =>
        /\ game.lives = ev.pre.lives - Cardinality(Arriving(ev.pre))
        /\ enemy_count(game) =
               enemy_count(ev.pre) + SpawnedBy(ev.pre, ev.dt)
                 - Cardinality(Arriving(ev.pre)) - ev.obs.kills
        /\ \A i \in 1..enemy_count(game) :
               game.enemies[i].path_index < path_length(game)
        /\ (ev.pre.lives = 1 => game.lives = 0 /\ game.state = "GameOver")

\* the last life was lost to an arriving enemy
C4_Witness ==
    /\ EnemyArrived
    /\ ev.pre.lives = 1
    /\ game.lives = 0
    /\ game.state = "GameOver"

\* C5 as stated: after the lives 1 -> 0 branch set the state to GameOver, the
\* rest of that update moves or removes no enemy.
C5_Original ==
    (ev.op = "update" /\ ev.obs.over)
    => /\ ev.obs.enemy_after_over = 0
       /\ ev.obs.removed_after_over = 0

\* C7: handleClick in Menu or Paused sets the state to Playing and changes
\* nothing else; in GameOver it yields the state resetGame yields; a tower is
\* added, or money changed without a reset, only in Playing.
C7_ClickByPhase ==
    ev.op = "handleClick" =>
        /\ ev.pre.state \in {"Menu", "Paused"}
              => game = [ev.pre EXCEPT !.state = "Playing"]
        /\ ev.pre.state = "GameOver" => game = resetGame
        /\ tower_count(game) > tower_count(ev.pre) => ev.pre.state = "Playing"
        /\ game.money # ev.pre.money => ev.pre.state \in {"Playing", "GameOver"}

\* a click was made in GameOver with enemies left on the field
C7_Witness ==
    /\ ev.op = "handleClick"
    /\ ev.pre.state = "GameOver"
    /\ ev.pre.lives = 0
    /\ enemy_count(ev.pre) > 0
    /\ game.state = "Playing"

\* C8 as stated: the pause toggle takes the engine from Playing to Paused.
C8_Original ==
    (ev.op = "togglePause" /\ isPaused /\ ev.pre.state = "Playing")
    => game.state = "Paused"

\* C9: an update made in Menu, Paused or GameOver leaves the whole game data
\* unchanged, for every delta.
C9_UpdateOutsidePlaying ==
    (ev.op = "update" /\ ev.pre.state # "Playing") => game = ev.pre

\* an update with a positive delta was made in GameOver with enemies left
C9_Witness ==
    /\ ev.op = "update"
    /\ ev.dt > 0
    /\ ev.pre.state = "GameOver"
    /\ enemy_count(ev.pre) > 0

\* C10 as stated: in Playing with a selected kind, canPlaceTower(x, y) is
\* true exactly when handleClick(x, y) in the same state adds a tower.
C10_Original ==
    (game.state = "Playing" /\ game.selected_tower_type # "None")
    => \A pt \in ClickPoints :
          LET x == pt[1] * PosScale
              y == pt[2] * PosScale
          IN canPlaceTower(game, x, y)
               <=> (tower_count(handleClick(game, x, y)) > tower_count(game))


\* C11: canPlaceTower, in every phase and at every point, leaves the whole
\* game data unchanged, and returns false whenever no kind is selected.
C11_PureQuery ==
    ev.op = "canPlaceTower" =>
        /\ game = ev.pre
        /\ ev.pre.selected_tower_type = "None" => ev.ret = FALSE

\* canPlaceTower was asked in Playing, with no kind selected, about a point
\* clear of the path and of every tower, with money for the cheapest kind
C11_Witness ==
    /\ ev.op = "canPlaceTower"
    /\ ev.pre.state = "Playing"
    /\ ev.pre.selected_tower_type = "None"
    /\ ev.pre.money >= Tower_init(0, 0, "Line").cost
    /\ ~TooClose(ev.pre.path, ev.x, ev.y)
    /\ ~TooClose(ev.pre.towers, ev.x, ev.y)
    /\ game = ev.pre

\* C12: every enemy spawned by an update that ends with wave = N was created
\* at the first waypoint with health = max_health = 20 + 5N, speed = 50 + 2N,
\* value = 5 + N and path_index 0.
C12_WaveScaling ==
    ev.op = "update" =>
        \A n \in 1..Len(ev.obs.spawned) :
            LET e == ev.obs.spawned[n]
                N == game.wave
            IN /\ e.x = game.path[1].x
               /\ e.y = game.path[1].y
               /\ e.health = (20 + 5 * N) * HealthScale
               /\ e.max_health = e.health
               /\ e.speed = (50 + 2 * N) * SpeedScale
               /\ e.value = 5 + N
               /\ e.path_index = 0

\* an enemy of wave 3 was spawned: health 35, speed 56, value 8
C12_Witness ==
    /\ ev.op = "update"
    /\ Len(ev.obs.spawned) = 1
    /\ game.wave = 3
    /\ ev.obs.spawned[1].health = 35 * HealthScale
    /\ ev.obs.spawned[1].speed = 56 * SpeedScale
    /\ ev.obs.spawned[1].value = 8

\* the last call was update, made in Playing
UpdateInPlaying == ev.op = "update" /\ ev.pre.state = "Playing"

\* the enemies the tower loop of the update of ev scanned: those of the
\* state before, and the enemy the spawn stage added
EnemiesAtTowerStage == Spawning(WavePacing(ev.pre, ev.dt), ev.dt).enemies

\* tower t of the state before ev, after the time update of line 465
TowerAtScan(t) == Tower_update(ev.pre.towers[t], ev.dt)

\* the enemies within the range of tower t when it scanned
InRange(t) ==
    { n \in 1..Len(EnemiesAtTowerStage) :
        /\ EnemiesAtTowerStage[n].active
        /\ Dist2(EnemiesAtTowerStage[n].x, EnemiesAtTowerStage[n].y,
                 TowerAtScan(t).x, TowerAtScan(t).y) < Sq(TowerAtScan(t).range) }

\* the square of the distance of enemy n to tower t when it scanned
ScanDist2(t, n) ==
    Dist2(EnemiesAtTowerStage[n].x, EnemiesAtTowerStage[n].y,
          TowerAtScan(t).x, TowerAtScan(t).y)

\* the shots of ev made by tower t
ShotsOf(t) == { k \in 1..Len(ev.obs.shots) : ev.obs.shots[k].tower = t }

\* C13: in an update, a tower whose cooldown is 0 after the time update fires
\* once, at an enemy in range that is nearest, and earliest in the collection
\* among the nearest; with no enemy in range it does not fire and its
\* cooldown stays 0.
C13_NearestTarget ==
    UpdateInPlaying =>
        \A t \in 1..tower_count(ev.pre) :
            TowerAtScan(t).cooldown = 0 =>
                IF InRange(t) = {}
                THEN ShotsOf(t) = {} /\ game.towers[t].cooldown = 0
                ELSE /\ Cardinality(ShotsOf(t)) = 1
                     /\ \A k \in ShotsOf(t) :
                          LET n == ev.obs.shots[k].target
                          IN /\ n \in InRange(t)
                             /\ \A m \in InRange(t) :
                                  \/ ScanDist2(t, n) < ScanDist2(t, m)
                                  \/ ScanDist2(t, n) = ScanDist2(t, m) /\ n <= m

\* a ready tower fired at the earlier of two equidistant nearest enemies,
\* while another ready tower had no enemy in range and did not fire
C13_Witness ==
    /\ UpdateInPlaying
    /\ \E t \in 1..tower_count(ev.pre) : \E k \in ShotsOf(t) :
          \E m \in InRange(t) :
             /\ m > ev.obs.shots[k].target
             /\ ScanDist2(t, m) = ScanDist2(t, ev.obs.shots[k].target)
    /\ \E t \in 1..tower_count(ev.pre) :
          /\ TowerAtScan(t).cooldown = 0
          /\ InRange(t) = {}
          /\ ShotsOf(t) = {}

\* a ready tower fired at an enemy later in the collection than another
\* enemy in range, because it was strictly nearer
C13_WitnessLater ==
    /\ UpdateInPlaying
    /\ \E t \in 1..tower_count(ev.pre) : \E k \in ShotsOf(t) :
          \E m \in InRange(t) : m < ev.obs.shots[k].target

\* C14: the deltas stepped between two consecutive shots of a tower (a
\* negative delta counting as no time) add up to at least its cooldown_max;
\* and a Line tower does not stay silent through two steps of 0.3 s after a
\* shot while an enemy is in its range at the second: it fires in the second
\* step, and by the first conjunct not in the first.
C14_Cooldown ==
    \A t \in 1..tower_count(game) :
        /\ shotClock[t].gap >= 0
              => shotClock[t].gap >= game.towers[t].cooldown_max
        /\ (/\ UpdateInPlaying
            /\ game.towers[t].type = "Line"
            /\ shotClock[t].steps = 2
            /\ shotClock[t].since = 2 * ((3 * TimeScale) \div 10))
           => InRange(t) = {}

\* a Line tower fired in a step of 0.3 s, 0.6 s after its previous shot
C14_Witness ==
    /\ UpdateInPlaying
    /\ ev.dt = (3 * TimeScale) \div 10
    /\ \E t \in 1..tower_count(game) :
          /\ game.towers[t].type = "Line"
          /\ ShotsOf(t) # {}
          /\ shotClock[t].since = 0
          /\ shotClock[t].gap = 2 * ((3 * TimeScale) \div 10)

\* the impacts of the last call made by projectiles of the given kinds
ImpactsOf(kinds) ==
    { k \in 1..Len(ev.obs.impacts) : ev.obs.impacts[k].p.tower_type \in kinds }

\* the square of the distance of enemy e to the target point of projectile p
ImpactDist2(e, p) == Dist2(e.x, e.y, p.target_x, p.target_y)

\* the enemies of the sequence that the collision scan of p matches
Matching(enemies, p) ==
    { n \in 1..Len(enemies) :
        enemies[n].active /\ ImpactDist2(enemies[n], p) < Sq(enemies[n].radius) }

\* D * (1 - dist / 50) for an active enemy at dist < 50 of the target point
\* of p, 0 for any other enemy; in health sub-points
FalloffDamage(e, p) ==
    IF e.active /\ ImpactDist2(e, p) < Sq(50)
    THEN RoundDiv(p.damage * HealthScale
                    * (50 * PosScale - Sqrt(ImpactDist2(e, p))),
                  50 * PosScale)
    ELSE 0

\* the two sequences hold the same elements the same number of times
SameBag(s1, s2) ==
    /\ Len(s1) = Len(s2)
    /\ \A i \in 1..Len(s1) :
          Cardinality({ j \in 1..Len(s1) : s1[j] = s1[i] })
            = Cardinality({ j \in 1..Len(s2) : s2[j] = s1[i] })

\* the enemies left by a splash of p over the given enemies: each has lost
\* its falloff damage, and those with no health left are gone
AfterSplash(enemies, p) ==
    LET Alive(e) == e.health > 0
    IN SelectSeq([j \in 1..Len(enemies) |->
                     [enemies[j] EXCEPT
                        !.health = enemies[j].health - FalloffDamage(enemies[j], p)]],
                 Alive)

\* C15 as stated: at the impact of a Triangle projectile every active enemy
\* at dist < 50 of the target point loses D * (1 - dist / 50) health, and
\* every other enemy none.
C15_Original ==
    \A k \in ImpactsOf({"Triangle"}) :
        SameBag(ev.obs.impacts[k].after,
                AfterSplash(ev.obs.impacts[k].before, ev.obs.impacts[k].p))

\* C15 amended: at the impact of a Triangle projectile, when some active
\* enemy is within its radius of the target point, every active enemy at
\* dist < 50 of the target point loses D * (1 - dist / 50) health (and is
\* removed when none is left) and every other enemy none; when no enemy is
\* within its radius of the target point, no enemy changes.
C15_SplashFalloff ==
    \A k \in ImpactsOf({"Triangle"}) :
        LET I == ev.obs.impacts[k]
        IN IF Matching(I.before, I.p) # {}
           THEN SameBag(I.after, AfterSplash(I.before, I.p))
           ELSE I.after = I.before

\* a splash damaged an enemy off the target point by part of the damage and
\* left an enemy beyond the splash radius alone
C15_Witness ==
    \E k \in ImpactsOf({"Triangle"}) :
        LET I == ev.obs.impacts[k]
        IN /\ Matching(I.before, I.p) # {}
           /\ \E n \in 1..Len(I.before) :
                 /\ n \notin Matching(I.before, I.p)
                 /\ FalloffDamage(I.before[n], I.p) > 0
           /\ \E n \in 1..Len(I.before) : ImpactDist2(I.before[n], I.p) >= Sq(50)
           /\ I.after # I.before

\* the enemies present before an impact that are not found unchanged after it
Touched(I) ==
    { j \in 1..Len(I.before) :
        \A i \in 1..Len(I.after) : I.after[i] # I.before[j] }

\* C16 as stated: the impact of a Line or Pentagon projectile changes the
\* health of at most one enemy, the first in collection order within its
\* radius of the target point, and removes at most one enemy.
C16_Original ==
    \A k \in ImpactsOf({"Line", "Pentagon"}) :
        LET I == ev.obs.impacts[k]
        IN /\ Cardinality(Touched(I)) <= 1
           /\ Len(I.before) - Len(I.after) <= 1
           /\ \A j \in Touched(I) :
                 j \in Matching(I.before, I.p)
                   /\ \A n \in Matching(I.before, I.p) : j <= n

\* the waypoint enemy e walks to
TargetOf(e, path) == path[e.path_index + 1]

\* C17 as stated: an update in Playing with a negative delta decreases
\* neither wave_timer nor spawn_timer, increases no tower's cooldown by the
\* time update, and moves no enemy and no projectile away from its target.
C17_Original ==
    (UpdateInPlaying /\ ev.dt < 0) =>
        /\ game.wave_timer >= ev.pre.wave_timer
        /\ game.spawn_timer >= ev.pre.spawn_timer
        /\ \A t \in 1..tower_count(ev.pre) :
              ShotsOf(t) = {} => game.towers[t].cooldown <= ev.pre.towers[t].cooldown
        /\ (ev.obs.kills = 0 /\ ev.obs.reached = 0) =>
              \A i \in 1..enemy_count(ev.pre) :
                 LET before == ev.pre.enemies[i]
                     after == game.enemies[i]
                     target == TargetOf(before, ev.pre.path)
                 IN before.path_index < path_length(ev.pre) =>
                       Dist2(after.x, after.y, target.x, target.y)
                         <= Dist2(before.x, before.y, target.x, target.y)
        /\ ev.obs.impacts = << >> =>
              \A i \in 1..projectile_count(ev.pre) :
                 LET before == ev.pre.projectiles[i]
                     after == game.projectiles[i]
                 IN Dist2(after.x, after.y, before.target_x, before.target_y)
                      <= Dist2(before.x, before.y, before.target_x, before.target_y)

\* C18: selectTowerType(id) sets the selection to Line, Triangle, Square,
\* Pentagon for id = 1, 2, 3, 4 and to none for every other id, and changes
\* no other field, in every phase.
C18_SelectTowerType ==
    ev.op = "selectTowerType" =>
        game = [ev.pre EXCEPT !.selected_tower_type =
                   IF ev.id \in 1..4
                   THEN << "Line", "Triangle", "Square", "Pentagon" >>[ev.id]
                   ELSE "None"]

\* outside Playing, with a kind selected, an id above 4 cleared the selection
C18_Witness ==
    /\ ev.op = "selectTowerType"
    /\ ev.id > 4
    /\ ev.pre.state = "GameOver"
    /\ ev.pre.selected_tower_type # "None"
    /\ game.selected_tower_type = "None"

\* C19: getTowerRange returns 150, 100, 120, 200 for the selected kind Line,
\* Triangle, Square, Pentagon and 0 when no kind is selected, and changes
\* nothing.
C19_TowerRange ==
    ev.op = "getTowerRange" =>
        /\ game = ev.pre
        /\ ev.ret = CASE ev.pre.selected_tower_type = "Line" -> 150
                      [] ev.pre.selected_tower_type = "Triangle" -> 100
                      [] ev.pre.selected_tower_type = "Square" -> 120
                      [] ev.pre.selected_tower_type = "Pentagon" -> 200
                      [] ev.pre.selected_tower_type = "None" -> 0

\* the range was asked with no kind selected
C19_Witness ==
    /\ ev.op = "getTowerRange"
    /\ ev.pre.selected_tower_type = "None"
    /\ ev.ret = 0

\* C20: init yields Menu, money 100, lives 20, wave 0, no tower, enemy or
\* projectile, zero timers and the default path of 8 waypoints; resetGame
\* yields the same with state Playing, whatever the state before.
C20_InitReset ==
    ev.op \in {"init", "resetGame"} =>
        /\ game.state = IF ev.op = "init" THEN "Menu" ELSE "Playing"
        /\ game.money = 100
        /\ game.lives = 20
        /\ game.wave = 0
        /\ game.towers = << >> /\ tower_count(game) = 0
        /\ game.enemies = << >> /\ enemy_count(game) = 0
        /\ game.projectiles = << >> /\ projectile_count(game) = 0
        /\ game.wave_timer = 0
        /\ game.spawn_timer = 0
        /\ game.enemies_to_spawn = 0
        /\ path_length(game) = 8
        /\ game.path = << PathPoint(0, 120), PathPoint(200, 120),
                          PathPoint(200, 280), PathPoint(400, 280),
                          PathPoint(400, 120), PathPoint(600, 120),
                          PathPoint(600, 400), PathPoint(800, 400) >>
        /\ ev.op = "resetGame" => game = [init EXCEPT !.state = "Playing"]

\* resetGame was called in a wave with a tower, an enemy and a projectile on
\* the field, money spent and no kind selected
C20_Witness ==
    /\ ev.op = "resetGame"
    /\ tower_count(ev.pre) > 0
    /\ enemy_count(ev.pre) > 0
    /\ projectile_count(ev.pre) > 0
    /\ ev.pre.money < 100
    /\ ev.pre.wave > 0
    /\ ev.pre.selected_tower_type = "None"
    /\ game.state = "Playing"


\* the game data after the wave stage of the update of ev
AtSpawnStage == WavePacing(ev.pre, ev.dt)

\* the update of ev called spawnEnemy (line 459)
SpawnAttempted ==
    /\ UpdateInPlaying
    /\ AtSpawnStage.enemies_to_spawn > 0
    /\ AtSpawnStage.spawn_timer + ev.dt > 1 * TimeScale

\* the number of projectiles when shot k of ev called addProjectile: the
\* tower loop only adds projectiles
ProjectilesAtShot(k) ==
    projectile_count(ev.pre)
      + Cardinality({ h \in 1..(k - 1) : ev.obs.shots[h].stored # << >> })

\* C21: in every state there are at most 100 enemies and at most 200
\* projectiles; a spawn attempted with 100 enemies stores no enemy and a
\* shot attempted with 200 projectiles stores no projectile, and the update
\* goes on to its later stages (every enemy and every projectile is still
\* updated).
C21_Capacity ==
    /\ enemy_count(game) <= ENEMIES_LEN
    /\ projectile_count(game) <= PROJECTILES_LEN
    /\ SpawnAttempted /\ enemy_count(ev.pre) = ENEMIES_LEN
         => /\ ev.obs.spawned = << >>
            /\ EnemiesAtTowerStage = ev.pre.enemies
            /\ Len(ev.obs.moves) >= ENEMIES_LEN
    /\ UpdateInPlaying
         => \A k \in 1..Len(ev.obs.shots) :
               ProjectilesAtShot(k) = PROJECTILES_LEN
                 => /\ ev.obs.shots[k].stored = << >>
                    /\ Len(ev.obs.flights) >= PROJECTILES_LEN

\* an update in which a spawn was attempted with 100 enemies and a shot with
\* 200 projectiles
C21_Witness ==
    /\ SpawnAttempted
    /\ enemy_count(ev.pre) = ENEMIES_LEN
    /\ \E k \in 1..Len(ev.obs.shots) : ProjectilesAtShot(k) = PROJECTILES_LEN
    /\ enemy_count(game) = ENEMIES_LEN

\* the update of ev began with no enemy on the field and none queued
BeganIdle ==
    UpdateInPlaying /\ enemy_count(ev.pre) = 0 /\ ev.pre.enemies_to_spawn = 0

\* the update of ev began idle and brought the wave timer to 5 s
WaveDue == BeganIdle /\ ev.pre.wave_timer + ev.dt >= 5 * TimeScale

\* C22: the wave timer changes only in updates that begin with no enemy on
\* the field and none queued, and there it grows by the delta; the wave
\* starts exactly in the update that brings the timer to 5 s: wave grows by
\* 1, the wave timer returns to 0, 5 + 2 * wave enemies (the new wave) are
\* queued and the spawn timer restarts from 0 (the spawn stage of the same
\* update then adds the delta to it, or spawns the first enemy); in any
\* other update the wave number stays.
C22_WavePacing ==
    UpdateInPlaying =>
        /\ game.wave_timer # ev.pre.wave_timer => BeganIdle
        /\ BeganIdle /\ ~WaveDue
             => game.wave_timer = ev.pre.wave_timer + ev.dt
        /\ WaveDue
             => /\ game.wave = ev.pre.wave + 1
                /\ game.wave_timer = 0
                /\ game.enemies_to_spawn + Len(ev.obs.spawned)
                     = 5 + 2 * game.wave
                /\ AtSpawnStage.spawn_timer = 0
                /\ game.spawn_timer
                     = IF ev.obs.spawned = << >> THEN ev.dt ELSE 0
        /\ ~WaveDue
             => /\ game.wave = ev.pre.wave
                /\ enemy_count(ev.pre) > 0 \/ ev.pre.enemies_to_spawn > 0
                     => game.wave_timer = ev.pre.wave_timer

\* the update that starts wave 2, five seconds after wave 1 was cleared
C22_Witness ==
    WaveDue /\ ev.pre.wave = 1 /\ game.wave = 2 /\ game.enemies_to_spawn = 9

\* the spawn stage of the update of ev found enemies queued
Queued == UpdateInPlaying /\ AtSpawnStage.enemies_to_spawn > 0

\* the spawn timer of that stage after its delta was added (line 456)
Accumulated == AtSpawnStage.spawn_timer + ev.dt

\* the spawn stage of the update of ev spawned one enemy, restarted the
\* timer and took one enemy off the queue
SpawnedOne ==
    /\ Len(ev.obs.spawned) = 1
    /\ game.spawn_timer = 0
    /\ game.enemies_to_spawn = AtSpawnStage.enemies_to_spawn - 1

\* the spawn stage of the update of ev spawned nothing
SpawnedNone ==
    /\ ev.obs.spawned = << >>
    /\ game.enemies_to_spawn = AtSpawnStage.enemies_to_spawn

\* C23 as stated: while enemies are queued the spawn timer accumulates, and
\* an enemy is spawned in the update in which the accumulated timer reaches
\* 1 s: the timer restarts and the queue shrinks by exactly 1.
C23_Original ==
    Queued =>
        IF Accumulated >= 1 * TimeScale
        THEN enemy_count(AtSpawnStage) < ENEMIES_LEN => SpawnedOne
        ELSE SpawnedNone /\ game.spawn_timer = Accumulated

\* C23, amended: while enemies are queued the spawn timer accumulates, and
\* an enemy is spawned in the update in which the accumulated timer exceeds
\* 1 s (at exactly 1 s nothing is spawned): the timer restarts and the queue
\* shrinks by exactly 1; with 100 enemies on the field the timer restarts
\* and nothing else happens.  With no enemy queued nothing is spawned and
\* the timer stays.
C23_Spawning ==
    UpdateInPlaying =>
        IF Queued
        THEN IF Accumulated > 1 * TimeScale
             THEN IF enemy_count(AtSpawnStage) < ENEMIES_LEN
                  THEN SpawnedOne
                  ELSE SpawnedNone /\ game.spawn_timer = 0
             ELSE SpawnedNone /\ game.spawn_timer = Accumulated
        ELSE SpawnedNone /\ game.spawn_timer = ev.pre.spawn_timer

\* an update that found the spawn timer at exactly 1 s, unspent, and spawned
C23_Witness ==
    /\ Queued
    /\ ev.pre.spawn_timer = 1 * TimeScale
    /\ SpawnedOne

\* the target point of projectile p
TargetPoint(p) == [x |-> p.target_x, y |-> p.target_y]

\* the target points of the projectiles of a sequence, in order
TargetPoints(projectiles) ==
    [k \in 1..Len(projectiles) |-> TargetPoint(projectiles[k])]

\* the projectiles the shots of ev stored, in order
RECURSIVE StoredUpTo(_)
StoredUpTo(k) ==
    IF k = 0 THEN << >> ELSE StoredUpTo(k - 1) \o ev.obs.shots[k].stored

StoredByShots == StoredUpTo(Len(ev.obs.shots))

\* the projectiles the impacts of ev removed, in order
RemovedByImpacts == [k \in 1..Len(ev.obs.impacts) |-> ev.obs.impacts[k].p]

\* C24: a projectile is stored with the position its targeted enemy had when
\* the tower fired (before that update's enemy movement) as target point; no
\* Projectile.update call changes the target point; and the target points of
\* the projectiles in flight after an update, with those of the projectiles
\* its impacts removed, are exactly those in flight before it with those of
\* the projectiles it stored, whatever happened to the enemies.  No other
\* operation changes a projectile, except that a reset discards them all.
C24_FixedTarget ==
    IF UpdateInPlaying
    THEN /\ \A k \in 1..Len(ev.obs.shots) :
               \A h \in 1..Len(ev.obs.shots[k].stored) :
                  LET enemy == EnemiesAtTowerStage[ev.obs.shots[k].target]
                  IN TargetPoint(ev.obs.shots[k].stored[h])
                       = [x |-> enemy.x, y |-> enemy.y]
         /\ \A k \in 1..Len(ev.obs.flights) :
               TargetPoint(ev.obs.flights[k].after)
                 = TargetPoint(ev.obs.flights[k].before)
         /\ SameBag(TargetPoints(game.projectiles \o RemovedByImpacts),
                    TargetPoints(ev.pre.projectiles \o StoredByShots))
    ELSE game.projectiles = ev.pre.projectiles \/ game.projectiles = << >>

\* an update that moved a projectile in flight whose target point no enemy
\* occupies any more, and in which an impact removed an enemy from the array
C24_Witness ==
    /\ UpdateInPlaying
    /\ ev.obs.kills > 0
    /\ \E k \in 1..Len(ev.obs.flights) :
          LET f == ev.obs.flights[k]
          IN /\ ~f.hit
             /\ f.after # f.before
             /\ f.after \in { game.projectiles[i] : i \in 1..Len(game.projectiles) }
             /\ \A n \in 1..Len(game.enemies) :
                   [x |-> game.enemies[n].x, y |-> game.enemies[n].y]
                     # TargetPoint(f.after)

\* projectile p is at less than 5 units of its target point
AtTarget(p) == Dist2(p.x, p.y, p.target_x, p.target_y) < Sq(5)

\* the projectiles the Projectile.update calls of ev left in flight, in order
RECURSIVE InFlightUpTo(_)
InFlightUpTo(k) ==
    IF k = 0 THEN << >>
    ELSE InFlightUpTo(k - 1)
           \o (IF ev.obs.flights[k].hit THEN << >>
               ELSE << ev.obs.flights[k].after >>)

\* the projectiles those calls found at their target point, in order
RECURSIVE ArrivedUpTo(_)
ArrivedUpTo(k) ==
    IF k = 0 THEN << >>
    ELSE ArrivedUpTo(k - 1)
           \o (IF AtTarget(ev.obs.flights[k].before)
               THEN << ev.obs.flights[k].before >>
               ELSE << >>)

\* C25: every projectile in flight is updated once in an update; those
\* within 5 units of their target point at that moment are exactly the
\* impacts of the update, and none of them is on the field afterwards,
\* whether or not an enemy was matched; the others stay.  An impact whose
\* target point has no active enemy within the enemy's radius changes no
\* enemy and no money.
C25_Removal ==
    UpdateInPlaying /\ ~ev.obs.trapped =>
        /\ Len(ev.obs.flights)
             = projectile_count(ev.pre) + Len(StoredByShots)
        /\ ArrivedUpTo(Len(ev.obs.flights)) = RemovedByImpacts
        /\ SameBag(game.projectiles, InFlightUpTo(Len(ev.obs.flights)))
        /\ \A k \in 1..Len(ev.obs.impacts) :
              LET I == ev.obs.impacts[k]
              IN Matching(I.before, I.p) = {}
                   => I.after = I.before /\ I.paid = 0

\* an update in which a projectile arrived where no enemy was within its
\* radius although enemies were on the field, and is gone
C25_Witness ==
    /\ UpdateInPlaying
    /\ \E k \in 1..Len(ev.obs.impacts) :
          LET I == ev.obs.impacts[k]
          IN /\ Matching(I.before, I.p) = {}
             /\ I.before # << >>
             /\ \A i \in 1..Len(game.projectiles) : game.projectiles[i] # I.p

\* C26: every update the animation loop makes has a delta of at most 0.1 s;
\* a frame measured above 0.1 s makes no engine call, changes nothing of the
\* game and leaves the next frame requested; every frame is measured from
\* lastTimestamp and stored into it, so that the frame after a skipped frame
\* is measured from the skipped frame's timestamp.
C26_FrameSkip ==
    /\ ev.op = "update" => ev.dt * 10 <= TimeScale
    /\ ev.op = "skipFrame"
         => /\ ev.dt * 10 > TimeScale
            /\ ~frame.last.forwarded
            /\ game = ev.pre
            /\ animating
    /\ ev.op \in {"update", "skipFrame"}
         => /\ ev.dt = frame.last.timestamp - frame.last.since
            /\ frame.last.timestamp = now
            /\ lastTimestamp = now
    /\ frame.before # NoFrame /\ ~frame.before.forwarded
         => frame.last.since = frame.before.timestamp

\* a frame 5 s after the previous one was skipped, and the frame 12.5 ms
\* after it has stepped the engine by 12.5 ms
C26_Witness ==
    /\ frame.before # NoFrame
    /\ ~frame.before.forwarded
    /\ frame.before.timestamp - frame.before.since = 5 * TimeScale
    /\ frame.last.forwarded
    /\ ev.op = "update"
    /\ ev.dt = 1
    /\ ev.pre.state = "Playing"
    /\ game.wave_timer = ev.pre.wave_timer + 1

\* the table of tower kinds: cooldown (s), range, damage, cost
KindTable ==
    [Line |-> [cooldown_max |-> TimeScale \div 2, range |-> 150,
               damage |-> 10, cost |-> 50],
     Triangle |-> [cooldown_max |-> TimeScale, range |-> 100,
                   damage |-> 15, cost |-> 100],
     Square |-> [cooldown_max |-> (8 * TimeScale) \div 10, range |-> 120,
                 damage |-> 5, cost |-> 75],
     Pentagon |-> [cooldown_max |-> (15 * TimeScale) \div 10, range |-> 200,
                   damage |-> 30, cost |-> 150]]

\* floor(c / 40) * 40 + 20, for c in sub-units
CellCentreOf(c) ==
    (c \div (40 * PosScale)) * (40 * PosScale) + 20 * PosScale

\* the handleClick of ev, made in Playing, changed the game data
Placed == ClickInPlaying /\ game # ev.pre

\* C27: a handleClick in Playing that changes anything appends exactly one
\* tower, at the centre of the clicked cell, of the selected kind with that
\* kind's cooldown, range, damage and cost from the table, level 1 and
\* cooldown 0, takes the cost off the money, and changes nothing else.
C27_Placement ==
    Placed =>
        LET kind == ev.pre.selected_tower_type
        IN /\ kind \in DOMAIN KindTable
           /\ game =
                [ev.pre EXCEPT
                   !.towers =
                       Append(ev.pre.towers,
                              [x |-> CellCentreOf(ev.x),
                               y |-> CellCentreOf(ev.y),
                               type |-> kind, level |-> 1, cooldown |-> 0,
                               cooldown_max |-> KindTable[kind].cooldown_max,
                               range |-> KindTable[kind].range,
                               damage |-> KindTable[kind].damage,
                               cost |-> KindTable[kind].cost]),
                   !.money = ev.pre.money - KindTable[kind].cost]

\* a Pentagon tower placed by a click off the cell centre, with enemies and
\* a projectile on the field
C27_Witness ==
    /\ Placed
    /\ ev.pre.selected_tower_type = "Pentagon"
    /\ ev.x # CellCentreOf(ev.x)
    /\ game.enemies # << >>
    /\ game.projectiles # << >>
    /\ game.money = 5

\* the money the impacts 1..k of ev added
RECURSIVE PaidUpTo(_)
PaidUpTo(k) == IF k = 0 THEN 0 ELSE PaidUpTo(k - 1) + ev.obs.impacts[k].paid

\* the values of the enemies that reached the end in moves 1..k of ev
RECURSIVE LeakedUpTo(_)
LeakedUpTo(k) ==
    IF k = 0 THEN 0
    ELSE LeakedUpTo(k - 1)
           + (IF ev.obs.moves[k].reached_end
              THEN ev.obs.moves[k].before.value ELSE 0)

\* C28: no enemy is left on the field with health 0 or below: an impact that
\* brings an enemy there removes it at once, and the money the impact adds
\* is exactly the sum of the values of the enemies it removed.  Over an
\* update the money grows by what its impacts added and by nothing else:
\* the enemies that left the field are worth that sum plus the values of the
\* enemies that reached the end of the path, which pay nothing.
C28_KillReward ==
    UpdateInPlaying /\ ~ev.obs.trapped =>
        /\ \A n \in 1..Len(game.enemies) : game.enemies[n].health > 0
        /\ \A k \in 1..Len(ev.obs.impacts) :
              LET I == ev.obs.impacts[k]
              IN /\ \A n \in 1..Len(I.after) : I.after[n].health > 0
                 /\ I.paid = SumValue(I.before) - SumValue(I.after)
        /\ game.money = ev.pre.money + PaidUpTo(Len(ev.obs.impacts))
        /\ SumValue(EnemiesAtTowerStage) - SumValue(game.enemies)
             = PaidUpTo(Len(ev.obs.impacts)) + LeakedUpTo(Len(ev.obs.moves))

\* an update in which one enemy reached the end of the path and an impact
\* killed another, paying its value 6
C28_Witness ==
    /\ UpdateInPlaying
    /\ ev.obs.reached = 1
    /\ ev.obs.kills = 1
    /\ game.lives = ev.pre.lives - 1
    /\ game.money = ev.pre.money + 6
    /\ Len(game.enemies) = Len(ev.pre.enemies) - 2

\* the first enemy, in collection order, that the collision scan of impact I
\* matches (0 if none)
FirstMatched(I) ==
    IF Matching(I.before, I.p) = {} THEN 0
    ELSE CHOOSE j \in Matching(I.before, I.p) :
            \A n \in Matching(I.before, I.p) : j <= n

\* enemy e after one hit of Square projectile p
SquareHit(e, p) ==
    [e EXCEPT !.speed = RoundDiv(e.speed * 8, 10),
              !.health = e.health - p.damage * HealthScale]

\* C29 as stated: the impact of a Square projectile multiplies the speed of
\* the matched enemy by 0.8 and takes the projectile's damage from its
\* health (removing it at health 0 or below), and affects no other enemy.
C29_Original ==
    \A k \in ImpactsOf({"Square"}) :
        LET I == ev.obs.impacts[k]
            m == FirstMatched(I)
        IN IF m = 0 THEN I.after = I.before
           ELSE /\ Touched(I) \subseteq {m}
                /\ IF SquareHit(I.before[m], I.p).health > 0
                   THEN I.after = [I.before EXCEPT ![m] = SquareHit(@, I.p)]
                   ELSE SameBag(I.after, SwapRemove(I.before, m))

\* the enemies the enemy loop of ev left on the field, in the order of its
\* Enemy.update calls
RECURSIVE MovedUpTo(_)
MovedUpTo(k) ==
    IF k = 0 THEN << >>
    ELSE MovedUpTo(k - 1)
           \o (IF ev.obs.moves[k].reached_end THEN << >>
               ELSE << ev.obs.moves[k].after >>)

C31_Original ==
    /\ game.lives \in 0..20
    /\ game.state = "GameOver" <=> game.lives = 0

\* C32: in every state money is 100, less the costs of the towers placed
\* since the last reset, plus the values of the enemies killed since; hence
\* no operation but a placement, a kill and a reset changes money.
C32_MoneyConserved ==
    /\ game.money = 100 - ledger.spent + ledger.earned
    /\ game.money # ev.pre.money
         => \/ Placed
            \/ UpdateInPlaying /\ ev.obs.kills > 0
            \/ game.money = 100

\* a Line tower was placed for 50 and an enemy of value 6 killed afterwards
C32_Witness ==
    /\ UpdateInPlaying
    /\ ev.obs.kills = 1
    /\ ledger.spent = 50 + 50
    /\ ledger.earned = 2 * 6 + 6
    /\ game.money = 18
    /\ Len(game.towers) = 2

WasReset ==
    \/ ev.op \in {"init", "resetGame", "startGame"}
    \/ ev.op = "handleClick" /\ ev.pre.state = "GameOver"

\* C34: every tower stands on a cell centre (both coordinates 40k + 20), any
\* two towers are at least 40 units apart (hence on distinct centres), every
\* tower is at least 40 units from every waypoint of the path, and unless
\* the game data was reset every tower of the state before is still in its
\* slot, unchanged but for its cooldown.
C34_TowerGrid ==
    /\ \A t \in 1..tower_count(game) :
          /\ (game.towers[t].x - 20 * PosScale) % (40 * PosScale) = 0
          /\ (game.towers[t].y - 20 * PosScale) % (40 * PosScale) = 0
          /\ \A u \in 1..tower_count(game) :
                u # t => Dist2(game.towers[t].x, game.towers[t].y,
                               game.towers[u].x, game.towers[u].y) >= Sq(40)
          /\ \A n \in 1..path_length(game) :
                Dist2(game.towers[t].x, game.towers[t].y,
                      game.path[n].x, game.path[n].y) >= Sq(40)
    /\ ~WasReset
         => /\ tower_count(game) >= tower_count(ev.pre)
            /\ \A t \in 1..tower_count(ev.pre) :
                  game.towers[t]
                    = [ev.pre.towers[t] EXCEPT !.cooldown = game.towers[t].cooldown]

\* two towers exactly 40 units apart, kept by an update in which the first
\* fired
C34_Witness ==
    /\ UpdateInPlaying
    /\ tower_count(game) = 2
    /\ Dist2(game.towers[1].x, game.towers[1].y,
             game.towers[2].x, game.towers[2].y) = Sq(40)
    /\ game.towers[1].cooldown > 0
    /\ ev.pre.towers[1].cooldown = 0

\* the last call was an update in Playing with a delta in (0, 0.1 s]
StepInPlaying ==
    UpdateInPlaying /\ ev.dt > 0 /\ ev.dt <= TimeScale \div 10

\* a projectile aimed at point T is in the collection
AimedAt(T) ==
    \E p \in 1..projectile_count(game) :
        game.projectiles[p].target_x = T[1] /\ game.projectiles[p].target_y = T[2]

FlightTargets == { << 615 * PosScale, 400 * PosScale >> }

Spawned == game.wave * game.wave + 6 * game.wave - game.enemies_to_spawn

\* the enemies that have reached the end of the path since the reset, each
\* at the price of one life
Exited == 20 - game.lives

MaxSpawned == 30

\* the waves of a game without towers
TowerlessWaves == 0..3

\* waves start one after another for as long as the game is played
WavesKeepStarting ==
    \A w \in TowerlessWaves :
        (game.wave = w) ~> (game.wave = w + 1 \/ game.state = "GameOver")

\* C36 as stated: without towers and with a constant delta, waves keep
\* starting, every spawned enemy eventually reaches the end of the path (the
\* enemies of a towerless game leave in the order they came, so the k-th
\* spawned has reached the end once k have), and the phase eventually becomes
\* GameOver.
C36_Original ==
    /\ WavesKeepStarting
    /\ \A k \in 1..MaxSpawned : (Spawned >= k) ~> (Exited >= k)
    /\ <>(game.state = "GameOver")

\* C36, amended: ... every spawned enemy eventually reaches the end of the
\* path unless the phase becomes GameOver first, and the phase eventually
\* becomes GameOver.
C36_Progress ==
    /\ WavesKeepStarting
    /\ \A k \in 1..MaxSpawned :
          (Spawned >= k) ~> (Exited >= k \/ game.state = "GameOver")
    /\ <>(game.state = "GameOver")

\* the game is over in wave 3 with 20 of the 27 enemies spawned through and
\* the other 7 on the path
C36_Witness ==
    /\ game.state = "GameOver"
    /\ ev.op = "update"
    /\ game.wave = 3
    /\ Spawned = 27
    /\ Exited = 20
    /\ enemy_count(game) = 7

\* the elements the Enemy.update calls of ev were made on, in order
UpdatedEnemies == [k \in 1..Len(ev.obs.moves) |-> ev.obs.moves[k].before]

\* the elements the Projectile.update calls of ev were made on, in order
UpdatedProjectiles == [k \in 1..Len(ev.obs.flights) |-> ev.obs.flights[k].before]

CanvasClicked == ev.op \in {"canPlaceTower", "handleClick"}

\* C38: a canvas click made while the phase is Menu or GameOver reaches
\* handleClick and leaves the phase Playing (the game started, or restarted).
C38_Original ==
    CanvasClicked /\ ev.pre.state \in {"Menu", "GameOver"}
        => ev.op = "handleClick" /\ game.state = "Playing"

\* what the listener does instead: outside Playing no canvas click reaches
\* handleClick, and the phase and the game data stay as they are
C38_Gated ==
    CanvasClicked /\ ev.pre.state # "Playing"
        => ev.op = "canPlaceTower" /\ ev.ret = FALSE /\ game = ev.pre

\* a canvas click after the game is over: nothing restarts
C38_Witness ==
    /\ CanvasClicked
    /\ ev.pre.state = "GameOver"
    /\ game.state = "GameOver"
    /\ game.lives = 0
====
